---- MODULE Spec2Model ----
(***************************************************************************)
(* A state-machine model of the tado_ce Home Assistant integration:        *)
(*   - the async client's token cache (async_api.py),                      *)
(*   - the writers and readers of config.json (config_manager.py,          *)
(*     config_flow.py, async_api.py),                                      *)
(*   - the polling scheduler of the lifecycle controller (__init__.py),    *)
(*   - the immediate refresh handler (immediate_refresh_handler.py),       *)
(*   - one async_sync pass of the async client (async_api.py),             *)
(*   - the error handler around the legacy client's calls                  *)
(*     (error_handler.py, tado_api.py),                                    *)
(*   - the AuthManager token cache of the entity platforms                 *)
(*     (auth_manager.py),                                                  *)
(*   - the migration and the duplicate check of the config entries         *)
(*     (__init__.py),                                                      *)
(*   - the user and authorize steps of the config flow (config_flow.py),   *)
(*   - the Resume All Schedules button, the hot water entity's mode        *)
(*     command and the heating entity's update (button.py,                 *)
(*     water_heater.py, climate.py),                                       *)
(*   - ConfigurationManager.validate_config_updates and                    *)
(*     async_update_config (config_manager.py),                            *)
(*   - the two timer actions and their time_period parsing (__init__.py),  *)
(*   - ratelimit.json as save_ratelimit writes it and the Test Mode gate   *)
(*     and the immediate refresh read it (async_api.py, __init__.py),      *)
(*   - the API call tracker's history file and worker pool                 *)
(*     (api_call_tracker.py).                                              *)
(* Python's None is the integer None (-1); booleans of the option set are  *)
(* 0 and 1; tokens and home ids are positive integers.                     *)
(***************************************************************************)
EXTENDS Integers, Sequences, FiniteSets, TLC

\* ------------------------------------------------------------------ bounds
NCallers ==
    3

MaxRefresh ==
    2

NSyncs ==
    2

NHomes ==
    2

MaxRT ==
    3

NSetups ==
    2

NSyncRuns ==
    1

MaxTimers ==
    4

NRefreshTasks ==
    2

MaxFailures ==
    9

MaxGap ==
    2

MaxBurst ==
    2

NEntries ==
    3

MaxChecks ==
    15

MaxZones ==
    4

MaxTimerHours ==
    25

MaxTimerMinutes ==
    60

\* async_record_call operations that are started
MaxRecordCalls ==
    3

None ==
    -1

Callers ==
    1..NCallers

Syncers ==
    1..NSyncs

\* ------------------------------------------------------------ dictionaries
EmptyDict ==
    [k \in {} |-> None]

\* dict.get(k): None when the key is missing
Get(d, k) ==
    IF k \in DOMAIN d THEN d[k] ELSE None

\* dict.update(other)
Update(d, other) ==
    [k \in (DOMAIN d) \cup (DOMAIN other) |->
        IF k \in DOMAIN other THEN other[k] ELSE d[k]]

\* d[k] = v
Put(d, k, v) ==
    [x \in (DOMAIN d) \cup {k} |-> IF x = k THEN v ELSE d[x]]

VARIABLES
    \* --- config.json on disk
    configFile,      \* [kind: "absent" | "ok" | "torn", data: dict]
    flowStale,       \* the config flow's open file is no longer config.json
    \* --- ConfigurationManager and the config flow
    hostOptions,     \* ConfigurationManager._options
    configLock,      \* _config_write_lock: 0 when free, else the holder
    syncPc,          \* per sync_all_to_config_json run: its position
    syncSaw,         \* per run: how it found config.json
    readData,        \* per run: the dict it loaded from config.json
    syncData,        \* per run: the merged dict it writes
    flowPc,          \* TadoCEConfigFlow._save_config_sync: its position
    flowData,        \* the credentials the flow writes
    \* --- TadoAsyncClient token cache
    accessToken,     \* _access_token (None or an id)
    tokenExpiry,     \* _token_expiry: "unset" | "future" | "past"
    refreshLock,     \* _refresh_lock: 0 when free, else the caller holding it
    waitQ,           \* the lock's FIFO of waiting callers
    pc,              \* per caller: position inside api_call / get_access_token
    tok,             \* per caller: the token get_access_token returned
    cfgLocal,        \* per caller: the config dict _refresh_token loaded
    sentRT,          \* per caller: the refresh token its POST carries
    nextAT,          \* number of access tokens the vendor has issued
    nextRT,          \* the newest refresh token the vendor has issued
    observed,        \* per caller: 0, or what the refresh it was blocked on
                     \* returned (None, or the token it cached)
    invalidated,     \* per caller: a 401 hit the cache since that refresh
    refreshed,       \* per caller: it sent a refresh request in this call
    last401,         \* None, or the number of access tokens issued so far
                     \* when a 401 emptied the cache and no call began since
    handoff,         \* while a woken waiter has not yet run: the callers whose
                     \* next step may already be queued on the loop before it
    \* --- the polling scheduler of async_setup_entry
    hassDomain,      \* DOMAIN in hass.data
    polling_cancel,  \* hass.data[DOMAIN]['polling_cancel']: None or a timer
    activeTimers,    \* the interval timers that have not been cancelled
    timerOwner,      \* per timer: the setup whose closure it calls (0: unused)
    setupPc,         \* per async_setup_entry call: its position
    unloadPc,        \* async_unload_entry: its position
    cancel_interval, \* per setup: cancel_interval[0], None or a timer
    current_interval,\* per setup: current_interval[0], minutes
    last_full_sync,  \* per setup: last_full_sync[0], None or set
    taskPc,          \* per setup and sync run: position inside async_sync_tado
    taskFull,        \* per setup and sync run: do_full_sync
    \* --- ImmediateRefreshHandler
    _last_refresh_per_entity,  \* per entity id: None, or the seconds since
                               \* its timestamp (saturating at the interval)
    _global_last_refresh,      \* None, or the seconds elapsed since it
    _consecutive_failures,
    _pending_refresh,
    _debounce_task,  \* None, 0 for a task that has ended, or a live task
    refreshTasks,    \* per task: [state, sleepLeft, inBurst]
    quotaReason,     \* what the latest trigger_refresh logged as its outcome
    sinceFetch,      \* None, or the seconds since the latest zoneStates fetch
                     \* was sent (saturating at MaxGap)
    burstSize,       \* requests accepted in the current burst (saturating)
    burstFetches,    \* zoneStates fetches sent for the current burst
    _handler,        \* the module's handler instance: None, or 1 for the
                     \* instance whose fields are the variables above
    \* --- TadoAsyncClient.async_sync and APIErrorHandler.handle_api_call
    syncPass,        \* one async_sync pass: its arguments, its stage, the
                     \* api_calls it has made and what it returned
    errorHandler,    \* one handle_api_call: the handler's settings, the
                     \* attempts made, the seconds slept and the outcome
    \* --- AuthManager (the token cache of the entity platforms' threads)
    authManager,     \* its fields, the refresh in flight and its outcome
    \* --- config entries: async_migrate_entry and async_setup_entry
    entries,         \* per entry id: present, version, what its migration
                     \* ran and returned, the keeper its setup picked, the
                     \* duplicates it has yet to remove, how far it got;
                     \* the data directory; the cleanup keys in hass.data
    \* --- the config flow's authorize step
    authorize,       \* the step the flow is at, the errors and abort
                     \* reason it shows, the checks made, the latest answer
    \* --- entities
    button,          \* TadoResumeAllSchedulesButton: its entity id and one
                     \* async_press, with the outcome of each zone's call
    waterHeater,     \* TadoWaterHeater: the displayed mode and one
                     \* async_set_operation_mode: the mode asked for, the
                     \* mode saved, the attempt, the calls and sleeps so far
    climate,         \* TadoClimate: the zone state read and the attributes
    \* --- ConfigurationManager.validate_config_updates
    validation,      \* the batch validated last, and the answer: valid,
                     \* or the field and the reason of the first failure
    \* --- the registered timer actions
    timer,           \* one call of a timer action: its data, the minutes
                     \* parsed, whether it raised, what the entity was given
    \* --- APICallTracker and its worker pool
    tracker,         \* the history in memory, the recordings in flight, the
                     \* pool's queue and threads, the file on disk
    \* --- ConfigurationManager.async_update_config
    manager,         \* one update: where it is, what it returned, and the
                     \* options before it (the options are hostOptions)
    \* --- the vendor's quota and ratelimit.json
    ratelimit        \* the calls the vendor has counted in the current
                     \* window, and the snapshot save_ratelimit wrote last

tokenVars ==
    <<accessToken, tokenExpiry, refreshLock, waitQ, pc, tok, cfgLocal, sentRT,
      nextAT, nextRT, observed, invalidated, refreshed, last401, handoff>>

fileVars ==
    <<configFile, flowStale>>

syncVars ==
    <<hostOptions, configLock, syncPc, syncSaw, readData, syncData, flowPc,
      flowData>>

pollVars ==
    <<hassDomain, polling_cancel, activeTimers, timerOwner, setupPc,
      unloadPc, cancel_interval, current_interval, last_full_sync, taskPc,
      taskFull>>

refreshVars ==
    <<_last_refresh_per_entity, _global_last_refresh, _consecutive_failures,
      _pending_refresh, _debounce_task, refreshTasks, quotaReason, sinceFetch,
      burstSize, burstFetches>>

\* the components with no state in common with the others
componentVars ==
    <<authManager, entries, authorize, climate, validation>>

\* the entities whose commands ask the handler for a refresh
entityVars ==
    <<button, waterHeater>>

\* the actions, the call tracker and the option updates
serviceVars ==
    <<timer, tracker, manager, ratelimit>>

\* what the token cache never touches
tokenEnv ==
    <<syncVars, pollVars, refreshVars, _handler, syncPass, errorHandler,
      componentVars, entityVars,
      serviceVars>>

\* what the writers of config.json never touch
configEnv ==
    <<pollVars, refreshVars, _handler, syncPass, errorHandler, componentVars,
      entityVars,
      serviceVars>>

\* what the polling scheduler never touches
pollEnv ==
    <<tokenVars, configLock, syncPc, syncSaw, readData, syncData, flowPc,
      flowData, refreshVars, syncPass, errorHandler, componentVars,
      entityVars,
      serviceVars>>

\* what a trigger_refresh never touches, whichever entity calls it
commandEnv ==
    <<fileVars, tokenVars, syncVars, pollVars, _handler, syncPass,
      errorHandler, componentVars, serviceVars>>

\* what the immediate refresh handler never touches
refreshEnv ==
    <<commandEnv, entityVars>>

vars ==
    <<fileVars, tokenVars, syncVars, pollVars, refreshVars, _handler,
      syncPass, errorHandler, componentVars, entityVars,
      serviceVars>>

\* ======================================================== config.json, reads
\* _load_config_sync + _load_config: a missing file, or one json.load cannot
\* parse, reads as {"home_id": None, "refresh_token": None}
CredentialKeys ==
    {"refresh_token", "home_id"}

NoCredentials ==
    [k \in {"home_id", "refresh_token"} |-> None]

_load_config ==
    IF configFile.kind = "ok" THEN configFile.data ELSE NoCredentials

\* tempfile + shutil.move: the path is switched to the complete new content;
\* a writer that holds the old file open goes on writing to the old file
AtomicReplace(d) ==
    /\ configFile' = [kind |-> "ok", data |-> d]
    /\ flowStale' = (flowPc = "open")

\* ================================================= TadoAsyncClient, tokens
\* get_access_token: the cached token is still valid (10 s before its expiry)
TokenValid ==
    accessToken # None /\ tokenExpiry = "future"

\* a lock that lets every caller in
LockFree_Always ==
    TRUE

\* asyncio.Lock.acquire, the path that does not wait
LockFree ==
    refreshLock = 0 /\ waitQ = <<>>

\* asyncio.Lock.release with a waiter queued: the waiter is woken through the
\* loop's ready queue and runs on the next iteration; the lock is free until
\* then
Window ==
    refreshLock = 0 /\ waitQ # <<>>

\* Only a step that was pending when the lock was released can run before the
\* woken waiter: the end of an operation another caller had in flight, or a
\* call about to start.  What the releasing caller does next comes later.
MayStep(c) ==
    Window => c \in handoff

Stepped(c) ==
    handoff' = handoff \ {c}

Release(c, q) ==
    /\ refreshLock' = 0
    /\ handoff' = IF q # <<>>
                  THEN {x \in Callers \ {c} :
                          pc[x] \in {"idle", "load_home", "get", "done"}}
                  ELSE {}

\* api_call after get_access_token returned t: no token fails the call,
\* otherwise the call goes on to load home_id
AfterToken(c, t) ==
    /\ tok' = [tok EXCEPT ![c] = t]
    /\ pc' = [pc EXCEPT ![c] = IF t = None THEN "done" ELSE "load_home"]

\* the body of `async with self._refresh_lock`: the cached token is returned
\* while it is valid
UseCache ==
    TokenValid

EnterLocked(c, q) ==
    IF UseCache
    THEN /\ AfterToken(c, accessToken)
         /\ Release(c, q)
    ELSE /\ pc' = [pc EXCEPT ![c] = "load_cfg"]
         /\ refreshLock' = c
         /\ handoff' = {}
         /\ tok' = tok

\* api_call -> get_access_token, up to its first suspension
get_access_token(c) ==
    /\ pc[c] = "idle"
    /\ MayStep(c)
    /\ IF LockFree
       THEN EnterLocked(c, waitQ) /\ waitQ' = waitQ
       ELSE /\ pc' = [pc EXCEPT ![c] = "wait"]
            /\ waitQ' = Append(waitQ, c)
            /\ Stepped(c)
            /\ UNCHANGED <<refreshLock, tok>>
    /\ UNCHANGED <<fileVars, accessToken, tokenExpiry, cfgLocal, sentRT,
                   nextAT, nextRT, observed, invalidated, refreshed>>
    /\ last401' = None
    /\ UNCHANGED tokenEnv

\* a waiter woken by the release of the lock takes it
LockWake(c) ==
    /\ pc[c] = "wait"
    /\ refreshLock = 0
    /\ waitQ # <<>> /\ Head(waitQ) = c
    /\ waitQ' = Tail(waitQ)
    /\ EnterLocked(c, Tail(waitQ))
    /\ UNCHANGED <<fileVars, accessToken, tokenExpiry, cfgLocal, sentRT,
                   nextAT, nextRT, observed, invalidated, refreshed>>
    /\ UNCHANGED last401
    /\ UNCHANGED tokenEnv

\* what every caller still queued on the lock has seen of the refresh that
\* just ended: None when it failed, else the token it cached
Observe(res) ==
    /\ observed' = [c \in Callers |->
                      IF pc[c] = "wait" THEN res ELSE observed[c]]
    /\ invalidated' = [c \in Callers |->
                      IF pc[c] = "wait" THEN FALSE ELSE invalidated[c]]

\* _refresh_token returns t: the lock is released, api_call goes on
RefreshReturn(c, t) ==
    /\ Release(c, waitQ)
    /\ AfterToken(c, t)
    /\ Observe(t)

\* _refresh_token: config loaded; without a refresh token give up, else POST
RefreshLoad(c) ==
    /\ pc[c] = "load_cfg"
    /\ cfgLocal' = [cfgLocal EXCEPT ![c] = _load_config]
    /\ IF Get(_load_config, "refresh_token") = None
       THEN /\ RefreshReturn(c, None)
            /\ UNCHANGED <<sentRT, refreshed>>
       ELSE /\ pc' = [pc EXCEPT ![c] = "post"]
            /\ sentRT' = [sentRT EXCEPT ![c] = Get(_load_config, "refresh_token")]
            /\ refreshed' = [refreshed EXCEPT ![c] = TRUE]
            /\ UNCHANGED <<refreshLock, tok, observed, invalidated, handoff>>
    /\ UNCHANGED <<fileVars, accessToken, tokenExpiry, waitQ, nextAT, nextRT>>
    /\ UNCHANGED last401
    /\ UNCHANGED tokenEnv

\* the vendor's answers to the token POST
RefreshOutcomes ==
    {"ok_same", "ok_rotated", "ok_no_access_token", "invalid_grant",
     "http_error", "network_error"}

\* _refresh_token: the answer to the POST arrives
RefreshResponse(c, outcome) ==
    /\ pc[c] = "post"
    /\ outcome \in {"ok_same", "ok_rotated"} => nextAT < MaxRefresh
    /\ outcome = "ok_rotated" => nextRT < MaxRT
    /\ CASE outcome = "ok_same" ->
              /\ accessToken' = nextAT + 1
              /\ nextAT' = nextAT + 1
              /\ tokenExpiry' = "future"
              /\ RefreshReturn(c, nextAT + 1)
              /\ UNCHANGED <<cfgLocal, nextRT>>
         [] outcome = "ok_rotated" ->
              /\ accessToken' = nextAT + 1
              /\ nextAT' = nextAT + 1
              /\ nextRT' = nextRT + 1
              /\ cfgLocal' = [cfgLocal EXCEPT
                                ![c] = Put(@, "refresh_token", nextRT + 1)]
              /\ pc' = [pc EXCEPT ![c] = "save_rotated"]
              /\ UNCHANGED <<tokenExpiry, refreshLock, tok, observed,
                             invalidated, handoff>>
         [] outcome = "ok_no_access_token" ->
              /\ accessToken' = None
              /\ RefreshReturn(c, None)
              /\ UNCHANGED <<tokenExpiry, cfgLocal, nextAT, nextRT>>
         [] outcome = "invalid_grant" ->
              /\ cfgLocal' = [cfgLocal EXCEPT
                                ![c] = Put(@, "refresh_token", None)]
              /\ pc' = [pc EXCEPT ![c] = "save_cleared"]
              /\ UNCHANGED <<accessToken, tokenExpiry, refreshLock, tok,
                             nextAT, nextRT, observed, invalidated, handoff>>
         [] OTHER ->
              /\ RefreshReturn(c, None)
              /\ UNCHANGED <<accessToken, tokenExpiry, cfgLocal, nextAT,
                             nextRT>>
    /\ UNCHANGED <<fileVars, waitQ, sentRT, refreshed>>
    /\ UNCHANGED last401
    /\ UNCHANGED tokenEnv

\* _refresh_token -> _save_config -> _save_config_sync, then the return
RefreshSave(c) ==
    /\ pc[c] \in {"save_rotated", "save_cleared"}
    /\ AtomicReplace(cfgLocal[c])
    /\ IF pc[c] = "save_rotated"
       THEN /\ tokenExpiry' = "future"
            /\ RefreshReturn(c, accessToken)
       ELSE /\ tokenExpiry' = tokenExpiry
            /\ RefreshReturn(c, None)
    /\ UNCHANGED <<accessToken, waitQ, cfgLocal, sentRT, nextAT, nextRT,
                   refreshed>>
    /\ UNCHANGED last401
    /\ UNCHANGED tokenEnv

\* api_call: home_id read from config.json; without one the call fails,
\* otherwise the GET is sent with the token
ApiLoadHome(c) ==
    /\ pc[c] = "load_home"
    /\ MayStep(c) /\ Stepped(c)
    /\ pc' = [pc EXCEPT ![c] = IF Get(_load_config, "home_id") = None
                              THEN "done" ELSE "get"]
    /\ UNCHANGED <<fileVars, accessToken, tokenExpiry, refreshLock, waitQ,
                   tok, cfgLocal, sentRT, nextAT, nextRT, observed,
                   invalidated, refreshed>>
    /\ UNCHANGED last401
    /\ UNCHANGED tokenEnv

HttpStatuses ==
    {200, 401, 429, 500}

\* a 401 that leaves the cache as it is
ApiResponse_KeepsToken(c, status) ==
    /\ pc[c] = "get"
    /\ MayStep(c) /\ Stepped(c)
    /\ pc' = [pc EXCEPT ![c] = "done"]
    /\ last401' = IF status = 401 THEN nextAT ELSE last401
    /\ UNCHANGED <<accessToken, tokenExpiry, invalidated>>
    /\ UNCHANGED <<fileVars, refreshLock, waitQ, tok, cfgLocal, sentRT,
                   nextAT, nextRT, observed, refreshed>>
    /\ UNCHANGED tokenEnv

\* api_call, GET: the response; 401 invalidates the cached token
ApiResponse(c, status) ==
    /\ pc[c] = "get"
    /\ MayStep(c) /\ Stepped(c)
    /\ pc' = [pc EXCEPT ![c] = "done"]
    /\ IF status = 401
       THEN /\ accessToken' = None
            /\ tokenExpiry' = "unset"
            /\ invalidated' = [x \in Callers |->
                                 IF pc[x] = "wait" THEN TRUE ELSE invalidated[x]]
            /\ last401' = nextAT
       ELSE UNCHANGED <<accessToken, tokenExpiry, invalidated, last401>>
    /\ UNCHANGED <<fileVars, refreshLock, waitQ, tok, cfgLocal, sentRT,
                   nextAT, nextRT, observed, refreshed>>
    /\ UNCHANGED tokenEnv

\* api_call has returned; the caller may call again
ApiReturn(c) ==
    /\ pc[c] = "done"
    /\ MayStep(c) /\ Stepped(c)
    /\ pc' = [pc EXCEPT ![c] = "idle"]
    /\ tok' = [tok EXCEPT ![c] = None]
    /\ cfgLocal' = [cfgLocal EXCEPT ![c] = EmptyDict]
    /\ sentRT' = [sentRT EXCEPT ![c] = None]
    /\ observed' = [observed EXCEPT ![c] = 0]
    /\ invalidated' = [invalidated EXCEPT ![c] = FALSE]
    /\ refreshed' = [refreshed EXCEPT ![c] = FALSE]
    /\ UNCHANGED <<fileVars, accessToken, tokenExpiry, refreshLock, waitQ,
                   nextAT, nextRT>>
    /\ UNCHANGED last401
    /\ UNCHANGED tokenEnv

\* 290 s pass: datetime.now() reaches _token_expiry - 10 s.  The hand-over of
\* the lock to a woken waiter takes no such time.
TokenExpires ==
    /\ tokenExpiry = "future"
    /\ ~Window
    /\ tokenExpiry' = "past"
    /\ UNCHANGED <<fileVars, accessToken, refreshLock, waitQ, pc, tok,
                   cfgLocal, sentRT, nextAT, nextRT, observed, invalidated,
                   refreshed, handoff>>
    /\ UNCHANGED last401
    /\ UNCHANGED tokenEnv

InitToken ==
    /\ accessToken = None
    /\ tokenExpiry = "unset"
    /\ refreshLock = 0
    /\ waitQ = <<>>
    /\ pc = [c \in Callers |-> "idle"]
    /\ tok = [c \in Callers |-> None]
    /\ cfgLocal = [c \in Callers |-> EmptyDict]
    /\ sentRT = [c \in Callers |-> None]
    /\ nextAT = 0
    /\ nextRT = 1
    /\ observed = [c \in Callers |-> 0]
    /\ invalidated = [c \in Callers |-> FALSE]
    /\ refreshed = [c \in Callers |-> FALSE]
    /\ last401 = None
    /\ handoff = {}

NextToken ==
    \/ \E c \in Callers : get_access_token(c)
    \/ \E c \in Callers : LockWake(c)
    \/ \E c \in Callers : RefreshLoad(c)
    \/ \E c \in Callers, o \in RefreshOutcomes : RefreshResponse(c, o)
    \/ \E c \in Callers : RefreshSave(c)
    \/ \E c \in Callers : ApiLoadHome(c)
    \/ \E c \in Callers, s \in HttpStatuses : ApiResponse(c, s)
    \/ \E c \in Callers : ApiReturn(c)
    \/ TokenExpires

\* ====================================================== ConfigurationManager
DEFAULT_WEATHER_ENABLED ==
    0

DEFAULT_DAY_START_HOUR ==
    7

DEFAULT_NIGHT_START_HOUR ==
    23

DEFAULT_API_HISTORY_RETENTION_DAYS ==
    14

DEFAULT_HOT_WATER_TIMER_DURATION ==
    60

MIN_HOUR ==
    0

MAX_HOUR ==
    23

MIN_INTERVAL_MINUTES ==
    1

MAX_INTERVAL_MINUTES ==
    1440

MIN_RETENTION_DAYS ==
    0

MAX_RETENTION_DAYS ==
    365

MAX_TIMER_DURATION ==
    1440

MIN_TIMER_DURATION ==
    5

\* self._options.get(k, default)
Opt(k, default) ==
    IF k \in DOMAIN hostOptions THEN hostOptions[k] ELSE default

\* get_day_start_hour, get_night_start_hour
get_hour(k, default) ==
    IF Opt(k, default) < 0 \/ Opt(k, default) > MAX_HOUR
    THEN default ELSE Opt(k, default)

\* get_custom_day_interval, get_custom_night_interval
get_custom_interval(k) ==
    IF Opt(k, None) = None THEN None
    ELSE IF Opt(k, None) < 1 \/ Opt(k, None) > MAX_INTERVAL_MINUTES
         THEN None ELSE Opt(k, None)

get_api_history_retention_days ==
    LET days == Opt("api_history_retention_days",
                    DEFAULT_API_HISTORY_RETENTION_DAYS)
    IN  IF days < 0 \/ days > MAX_RETENTION_DAYS
        THEN DEFAULT_API_HISTORY_RETENTION_DAYS ELSE days

get_hot_water_timer_duration ==
    LET duration == Opt("hot_water_timer_duration",
                        DEFAULT_HOT_WATER_TIMER_DURATION)
    IN  IF duration < MIN_TIMER_DURATION \/ duration > MAX_INTERVAL_MINUTES
        THEN DEFAULT_HOT_WATER_TIMER_DURATION ELSE duration

BoolOptionKeys ==
    {"weather_enabled", "mobile_devices_enabled",
     "mobile_devices_frequent_sync", "offset_enabled", "test_mode_enabled"}

OptionKeys ==
    BoolOptionKeys \cup
    {"day_start_hour", "night_start_hour", "custom_day_interval",
     "custom_night_interval", "api_history_retention_days",
     "hot_water_timer_duration"}

\* sync_all_to_config_json: the option values mirrored into config.json
config_data ==
    [k \in OptionKeys |->
        CASE k \in BoolOptionKeys -> Opt(k, DEFAULT_WEATHER_ENABLED)
          [] k = "day_start_hour" -> get_hour(k, DEFAULT_DAY_START_HOUR)
          [] k = "night_start_hour" -> get_hour(k, DEFAULT_NIGHT_START_HOUR)
          [] k \in {"custom_day_interval", "custom_night_interval"} ->
                get_custom_interval(k)
          [] k = "api_history_retention_days" -> get_api_history_retention_days
          [] OTHER -> get_hot_water_timer_duration]

\* sync_all_to_config_json: a preserved credential is put back; a missing key
\* is created as None
Restore(d, k, preserved) ==
    IF preserved # None THEN Put(d, k, preserved)
    ELSE IF k \notin DOMAIN d THEN Put(d, k, None) ELSE d

\* a sync that writes the options with empty credentials
MergedConfig_Fresh(existing) ==
    Update(NoCredentials, config_data)

\* sync_all_to_config_json: the dict written, from the dict loaded
MergedConfig(existing) ==
    Restore(Restore(Update(existing, config_data),
                    "refresh_token", Get(existing, "refresh_token")),
            "home_id", Get(existing, "home_id"))

\* sync_all_to_config_json takes _config_write_lock and builds config_data
SyncStart(s) ==
    /\ syncPc[s] = "idle"
    /\ configLock = 0
    /\ configLock' = s
    /\ syncPc' = [syncPc EXCEPT ![s] = "read"]
    /\ UNCHANGED <<fileVars, tokenVars, hostOptions, syncSaw, readData,
                   syncData, flowPc, flowData>>
    /\ UNCHANGED configEnv

\* ... loads config.json (a missing or unparsable file gives an empty dict),
\* merges and writes the temp file
SyncRead(s) ==
    /\ syncPc[s] = "read"
    /\ syncSaw' = [syncSaw EXCEPT ![s] = configFile.kind]
    /\ LET existing == IF configFile.kind = "ok" THEN configFile.data
                       ELSE EmptyDict
       IN  /\ readData' = [readData EXCEPT ![s] = existing]
           /\ syncData' = [syncData EXCEPT ![s] = MergedConfig(existing)]
    /\ syncPc' = [syncPc EXCEPT ![s] = "move"]
    /\ UNCHANGED <<fileVars, tokenVars, hostOptions, configLock, flowPc,
                   flowData>>
    /\ UNCHANGED configEnv

\* ... shutil.move(temp_path, CONFIG_FILE)
SyncMove(s) ==
    /\ syncPc[s] = "move"
    /\ AtomicReplace(syncData[s])
    /\ syncPc' = [syncPc EXCEPT ![s] = "verify"]
    /\ UNCHANGED <<tokenVars, hostOptions, configLock, syncSaw, readData,
                   syncData, flowPc, flowData>>
    /\ UNCHANGED configEnv

\* ... re-reads config.json to verify it (raising when it is not JSON) and
\* leaves the lock
SyncVerify(s) ==
    /\ syncPc[s] = "verify"
    /\ configLock' = 0
    /\ syncPc' = [syncPc EXCEPT ![s] = "idle"]
    /\ syncSaw' = [syncSaw EXCEPT ![s] = "absent"]
    /\ readData' = [readData EXCEPT ![s] = EmptyDict]
    /\ syncData' = [syncData EXCEPT ![s] = EmptyDict]
    /\ UNCHANGED <<fileVars, tokenVars, hostOptions, flowPc, flowData>>
    /\ UNCHANGED configEnv

\* ============================================================ the config flow
\* _create_entry / async_step_reconfigure_confirm -> _save_config_sync:
\* open(CONFIG_FILE, 'w') truncates config.json in place
FlowOpen(h) ==
    /\ flowPc = "idle"
    /\ nextRT < MaxRT
    /\ nextRT' = nextRT + 1
    /\ flowData' = [k \in {"home_id", "refresh_token"} |->
                      IF k = "home_id" THEN h ELSE nextRT + 1]
    /\ configFile' = [kind |-> "torn", data |-> EmptyDict]
    /\ flowStale' = FALSE
    /\ flowPc' = "open"
    /\ UNCHANGED <<accessToken, tokenExpiry, refreshLock, waitQ, pc, tok,
                   cfgLocal, sentRT, nextAT, observed, invalidated, refreshed,
                   last401, handoff>>
    /\ UNCHANGED <<hostOptions, configLock, syncPc, syncSaw, readData,
                   syncData>>
    /\ UNCHANGED configEnv

\* ... json.dump and close: the file the flow opened is complete
FlowWrite ==
    /\ flowPc = "open"
    /\ configFile' = IF flowStale THEN configFile
                     ELSE [kind |-> "ok", data |-> flowData]
    /\ flowStale' = FALSE
    /\ flowPc' = "idle"
    /\ flowData' = EmptyDict
    /\ UNCHANGED <<tokenVars, hostOptions, configLock, syncPc, syncSaw,
                   readData, syncData>>
    /\ UNCHANGED configEnv

\* ======================================================= polling scheduler
Setups ==
    1..NSetups

SyncRuns ==
    1..NSyncRuns

Timers ==
    1..MaxTimers

DEFAULT_DAY_INTERVAL ==
    30

DEFAULT_NIGHT_INTERVAL ==
    120

TEST_MODE_LIMIT ==
    100

FULL_SYNC_INTERVAL_HOURS ==
    6

\* (threshold, day_interval, night_interval)
POLLING_INTERVALS ==
    << <<100, 30, 120>>, <<1000, 15, 60>>, <<5000, 10, 30>>, <<20000, 5, 15>> >>

\* the limit a ratelimit.json read can return: None without a file, else the
\* vendor's daily limit
RatelimitLimits ==
    {None, 5000}

\* get_polling_interval, from is_daytime and the limit of the cached snapshot
get_polling_interval(daytime, limit) ==
    LET custom == IF daytime THEN get_custom_interval("custom_day_interval")
                  ELSE get_custom_interval("custom_night_interval")
        effective_limit == IF Opt("test_mode_enabled", 0) = 1
                           THEN TEST_MODE_LIMIT ELSE limit
        Pick(row) == IF daytime THEN row[2] ELSE row[3]
        fits == {i \in 1..Len(POLLING_INTERVALS) :
                    effective_limit <= POLLING_INTERVALS[i][1]}
    IN  IF custom # None THEN custom
        ELSE IF effective_limit # None /\ effective_limit # 0
             THEN IF fits # {}
                  THEN Pick(POLLING_INTERVALS[
                          CHOOSE i \in fits : \A j \in fits : i <= j])
                  ELSE Pick(POLLING_INTERVALS[Len(POLLING_INTERVALS)])
             ELSE IF daytime THEN DEFAULT_DAY_INTERVAL
                  ELSE DEFAULT_NIGHT_INTERVAL

\* calling the function async_track_time_interval returned (None: no call)
Cancelled(timers, handle) ==
    timers \ {handle}

\* async_setup_entry up to its first await: hass.data[DOMAIN] is created and a
\* polling timer registered there by an earlier setup is cancelled
SetupStart(g) ==
    /\ setupPc[g] = "none"
    /\ unloadPc = "idle"
    /\ \A e \in Setups : e < g => setupPc[e] \in {"running", "unloaded"}
    /\ hassDomain' = TRUE
    /\ activeTimers' = IF hassDomain THEN Cancelled(activeTimers, polling_cancel)
                       ELSE activeTimers
    /\ setupPc' = [setupPc EXCEPT ![g] = "config_sync"]
    /\ UNCHANGED <<polling_cancel, timerOwner, unloadPc,
                   cancel_interval, current_interval, last_full_sync, taskPc,
                   taskFull>>
    /\ UNCHANGED <<fileVars, hostOptions, _handler, pollEnv>>

\* ... await config_manager.async_sync_all_to_config_json(): the options are
\* mirrored into config.json, which is created when it is missing; then
\* get_handler creates the refresh handler unless the module holds one
SetupConfigSync(g) ==
    /\ setupPc[g] = "config_sync"
    /\ _handler' = 1
    /\ AtomicReplace(MergedConfig(IF configFile.kind = "ok"
                                  THEN configFile.data ELSE EmptyDict))
    /\ setupPc' = [setupPc EXCEPT ![g] = "initial"]
    /\ UNCHANGED <<hassDomain, polling_cancel, activeTimers, timerOwner,
                   unloadPc, cancel_interval, current_interval,
                   last_full_sync, taskPc, taskFull>>
    /\ UNCHANGED <<hostOptions, pollEnv>>

\* a Test Mode check that never pauses
TestModePaused_Never(used) ==
    FALSE

\* async_sync_tado, its Test Mode check: used is the "used" count of
\* ratelimit.json, None when the file is missing or unreadable
TestModePaused(used) ==
    /\ Opt("test_mode_enabled", 0) = 1
    /\ used # None
    /\ used >= 100

\* a choice by the elapsed hours alone
do_full_sync_ElapsedOnly(g, hours_since_full) ==
    hours_since_full >= FULL_SYNC_INTERVAL_HOURS

\* async_sync_tado, do_full_sync: hours_since_full is read only when a full
\* sync has been recorded
do_full_sync(g, hours_since_full) ==
    \/ last_full_sync[g] = None
    \/ hours_since_full >= FULL_SYNC_INTERVAL_HOURS

\* ... the initial sync when config.json exists, else scheduling alone
SetupInitialSync(g, used) ==
    /\ setupPc[g] = "initial"
    /\ taskPc' = [taskPc EXCEPT ![g][1] =
                    IF configFile.kind # "absent" /\ ~TestModePaused(used)
                    THEN "syncing" ELSE "schedule"]
    /\ taskFull' = [taskFull EXCEPT ![g][1] =
                    /\ configFile.kind # "absent"
                    /\ ~TestModePaused(used)
                    /\ do_full_sync(g, 0)]
    /\ setupPc' = [setupPc EXCEPT ![g] = "awaiting"]
    /\ UNCHANGED <<hassDomain, polling_cancel, activeTimers, timerOwner,
                   unloadPc, cancel_interval, current_interval,
                   last_full_sync>>
    /\ UNCHANGED <<fileVars, hostOptions, _handler, pollEnv>>

\* an interval timer fires: async_sync_wrapper -> async_sync_tado up to its
\* await of client.async_sync; when Test Mode is on and its 100 calls are
\* used it goes straight to async_schedule_next_sync
TimerFires(t, i, used, hours_since_full) ==
    /\ t \in activeTimers
    /\ taskPc[timerOwner[t]][i] = "idle"
    /\ \A j \in SyncRuns : taskPc[timerOwner[t]][j] = "idle" => i <= j
    /\ taskPc' = [taskPc EXCEPT ![timerOwner[t]][i] =
                    IF TestModePaused(used) THEN "schedule" ELSE "syncing"]
    /\ taskFull' = [taskFull EXCEPT ![timerOwner[t]][i] =
                    /\ ~TestModePaused(used)
                    /\ do_full_sync(timerOwner[t], hours_since_full)]
    /\ UNCHANGED <<hassDomain, polling_cancel, activeTimers, timerOwner,
                   setupPc, unloadPc, cancel_interval,
                   current_interval, last_full_sync>>
    /\ UNCHANGED <<fileVars, hostOptions, _handler, pollEnv>>

\* client.async_sync returns (or raises): a successful full sync is recorded
SyncReturns(g, i, success) ==
    /\ taskPc[g][i] = "syncing"
    /\ last_full_sync' = IF success /\ taskFull[g][i]
                         THEN [last_full_sync EXCEPT ![g] = 1]
                         ELSE last_full_sync
    /\ taskPc' = [taskPc EXCEPT ![g][i] = "schedule"]
    /\ UNCHANGED <<hassDomain, polling_cancel, activeTimers, timerOwner,
                   setupPc, unloadPc, cancel_interval,
                   current_interval, taskFull>>
    /\ UNCHANGED <<fileVars, hostOptions, _handler, pollEnv>>

\* a timer object nothing refers to any more gives its identity back
TimersInUse ==
    activeTimers \cup {polling_cancel} \cup {cancel_interval[g] : g \in Setups}

\* async_schedule_next_sync after its ratelimit load: the previous timer of
\* this closure is cancelled, a new one is installed and registered in
\* hass.data[DOMAIN] (a KeyError once async_unload_entry has popped DOMAIN)
async_schedule_next_sync(g, i, daytime, limit) ==
    /\ taskPc[g][i] = "schedule"
    /\ \E new \in Timers \ TimersInUse :
          /\ \A t \in Timers \ TimersInUse : new <= t
          /\ activeTimers' = Cancelled(activeTimers, cancel_interval[g])
                                \cup {new}
          /\ cancel_interval' = [cancel_interval EXCEPT ![g] = new]
          /\ polling_cancel' = IF hassDomain THEN new ELSE polling_cancel
          /\ timerOwner' = [t \in Timers |->
                              IF t = new THEN g
                              ELSE IF t \in TimersInUse' THEN timerOwner[t]
                              ELSE 0]
    /\ current_interval' =
          [current_interval EXCEPT ![g] = get_polling_interval(daytime, limit)]
    /\ taskPc' = [taskPc EXCEPT ![g][i] = "idle"]
    /\ taskFull' = [taskFull EXCEPT ![g][i] = FALSE]
    /\ setupPc' = IF i = 1 /\ setupPc[g] = "awaiting"
                  THEN [setupPc EXCEPT ![g] = "running"] ELSE setupPc
    /\ UNCHANGED <<hassDomain, unloadPc, last_full_sync>>
    /\ UNCHANGED <<fileVars, hostOptions, _handler, pollEnv>>

\* async_unload_entry up to its await of async_unload_platforms: the timer
\* registered in hass.data[DOMAIN] is cancelled and cleanup_handler drops the
\* module's reference to the refresh handler
UnloadStart ==
    /\ unloadPc = "idle"
    /\ \E g \in Setups : setupPc[g] = "running"
    /\ \A g \in Setups : setupPc[g] \in {"none", "running", "unloaded"}
    /\ activeTimers' = IF hassDomain THEN Cancelled(activeTimers, polling_cancel)
                       ELSE activeTimers
    /\ unloadPc' = "platforms"
    /\ _handler' = None
    /\ UNCHANGED <<hassDomain, polling_cancel, timerOwner, setupPc,
                   cancel_interval, current_interval, last_full_sync, taskPc,
                   taskFull>>
    /\ UNCHANGED <<fileVars, hostOptions, pollEnv>>

\* ... async_unload_platforms returns: hass.data.pop(DOMAIN) when it succeeded
UnloadFinish(unload_ok) ==
    /\ unloadPc = "platforms"
    /\ unloadPc' = "idle"
    /\ hassDomain' = IF unload_ok THEN FALSE ELSE hassDomain
    /\ polling_cancel' = IF unload_ok THEN None ELSE polling_cancel
    /\ setupPc' = IF unload_ok
                  THEN [g \in Setups |-> IF setupPc[g] = "running"
                                         THEN "unloaded" ELSE setupPc[g]]
                  ELSE setupPc
    /\ UNCHANGED <<activeTimers, cancel_interval, current_interval,
                   last_full_sync, taskPc, taskFull>>
    /\ timerOwner' = [t \in Timers |->
                        IF t \in TimersInUse' THEN timerOwner[t] ELSE 0]
    /\ UNCHANGED <<fileVars, hostOptions, _handler, pollEnv>>

\* ================================================= ImmediateRefreshHandler
REFRESH_ENTITY_TYPES ==
    {"climate", "switch", "water_heater"}

QUOTA_CRITICAL_TENTHS ==
    9

MIN_QUOTA_FOR_REFRESH ==
    50

_min_global_interval ==
    2

_max_backoff_interval ==
    300

_debounce_delay ==
    1

_min_per_entity_interval ==
    2

\* entity ids as <<domain, object id>>
EntityIds ==
    {<<"climate", "living_room">>, <<"sensor", "api_usage">>}

\* the same with a second entity whose commands ask for a refresh
CommandEntityIds ==
    EntityIds \cup {<<"switch", "child_lock">>}

RefreshTaskIds ==
    1..NRefreshTasks

Min(a, b) ==
    IF a <= b THEN a ELSE b

\* save_ratelimit: the snapshot written to ratelimit.json for the header
\* values and the status passed in (percentage_used is rounded to one decimal
\* before it is compared with 80)
Snapshot(limit, remaining, status) ==
    [limit |-> limit,
     remaining |-> remaining,
     used |-> limit - remaining,
     status |-> IF remaining = 0 THEN "rate_limited"
                ELSE IF limit > 0 /\ 2000 * (limit - remaining) >= 1601 * limit
                     THEN "warning" ELSE status]

\* what _get_rate_limit_info can return: {} for a missing or unreadable
\* file, else a snapshot save_ratelimit wrote
RatelimitSnapshots ==
    {EmptyDict} \cup
    {Snapshot(x[1], x[2], x[3]) :
        x \in {<<5000, 5000, "ok">>, <<5000, 501, "ok">>, <<5000, 500, "ok">>,
               <<5000, 0, "ok">>, <<5000, 4000, "rate_limited">>,
               <<100, 50, "ok">>, <<100, 49, "error">>}}

\* a quota check without the floor on the remaining calls
_check_quota_available_NoFloor(rl_info) ==
    IF DOMAIN rl_info = {} THEN "no_rate_limit_data"
    ELSE IF rl_info.status = "rate_limited" \/ rl_info.remaining = 0
         THEN "rate_limited"
    ELSE IF rl_info.limit # 0 /\ rl_info.limit # None
            /\ rl_info.remaining # None
            /\ 10 * (rl_info.limit - rl_info.remaining)
                  >= QUOTA_CRITICAL_TENTHS * rl_info.limit
         THEN "quota_critical"
    ELSE "ok"

\* _check_quota_available: the reason it returns; the refresh is allowed for
\* "no_rate_limit_data" and "ok"
_check_quota_available(rl_info) ==
    IF DOMAIN rl_info = {} THEN "no_rate_limit_data"
    ELSE IF rl_info.status = "rate_limited" \/ rl_info.remaining = 0
         THEN "rate_limited"
    ELSE IF rl_info.remaining # None
            /\ rl_info.remaining < MIN_QUOTA_FOR_REFRESH
         THEN "quota_too_low"
    ELSE IF rl_info.limit # 0 /\ rl_info.limit # None
            /\ rl_info.remaining # None
            /\ 10 * (rl_info.limit - rl_info.remaining)
                  >= QUOTA_CRITICAL_TENTHS * rl_info.limit
         THEN "quota_critical"
    ELSE "ok"

\* a backoff without the ceiling
_get_backoff_interval_Uncapped ==
    IF _consecutive_failures = 0 THEN _min_global_interval
    ELSE _min_global_interval * (2 ^ _consecutive_failures)

_get_backoff_interval ==
    IF _consecutive_failures = 0 THEN _min_global_interval
    ELSE Min(_min_global_interval * (2 ^ _consecutive_failures),
             _max_backoff_interval)

should_refresh(entity_id) ==
    entity_id[1] \in REFRESH_ENTITY_TYPES

\* can_refresh_now: the global backoff check and the per-entity interval
\* check; no caller in the integration invokes it
can_refresh_now(entity_id) ==
    /\ ~ ( /\ _global_last_refresh # None
           /\ _global_last_refresh < _get_backoff_interval )
    /\ ~ ( /\ _last_refresh_per_entity[entity_id] # None
           /\ _last_refresh_per_entity[entity_id] < _min_per_entity_interval )

FreeTask ==
    [state |-> "free", sleepLeft |-> 0, inBurst |-> FALSE]

\* a trigger_refresh that leaves the earlier task running
CancelDebounceTask_Forgotten(tasks) ==
    tasks

\* self._debounce_task.cancel(): a task that has not ended gets
\* CancelledError at the await it is suspended in, and ends
CancelDebounceTask(tasks) ==
    [i \in DOMAIN tasks |-> IF i = _debounce_task THEN FreeTask ELSE tasks[i]]

\* the task _debounce_task refers to has ended
TaskEnds(i) ==
    _debounce_task' = IF _debounce_task = i THEN 0 ELSE _debounce_task

\* trigger_refresh(entity_id), with the snapshot its quota check reads
trigger_refresh(entity_id, rl_info) ==
    /\ LET reason == _check_quota_available(rl_info)
           sameBurst == /\ _debounce_task > 0
                        /\ refreshTasks[_debounce_task].state = "sleeping"
           remaining == CancelDebounceTask(refreshTasks)
           free == {i \in RefreshTaskIds : remaining[i].state = "free"}
           new == CHOOSE i \in free : \A j \in free : i <= j
       IN  IF ~should_refresh(entity_id)
           THEN UNCHANGED refreshVars
           ELSE IF reason \notin {"no_rate_limit_data", "ok"}
           THEN /\ quotaReason' = reason
                /\ UNCHANGED <<_last_refresh_per_entity, _global_last_refresh,
                               _consecutive_failures, _pending_refresh,
                               _debounce_task, refreshTasks, sinceFetch,
                               burstSize, burstFetches>>
           ELSE /\ free # {}
                /\ quotaReason' = reason
                /\ refreshTasks' =
                      [i \in RefreshTaskIds |->
                         IF i = new
                         THEN [state |-> "sleeping",
                               sleepLeft |-> _debounce_delay, inBurst |-> TRUE]
                         ELSE [remaining[i] EXCEPT
                                 !.inBurst = @ /\ sameBurst]]
                /\ _debounce_task' = new
                /\ _pending_refresh' = TRUE
                /\ _last_refresh_per_entity' =
                      Put(_last_refresh_per_entity, entity_id, 0)
                /\ burstSize' = IF sameBurst THEN Min(burstSize + 1, MaxBurst)
                                ELSE 1
                /\ burstFetches' = IF sameBurst THEN burstFetches ELSE 0
                /\ UNCHANGED <<_global_last_refresh, _consecutive_failures,
                               sinceFetch>>
    /\ UNCHANGED commandEnv

\* _debounced_refresh resumes after asyncio.sleep: it returns when nothing is
\* pending or the global backoff is active, else it enters
\* _async_fetch_zone_states
DebounceElapsed(i) ==
    /\ refreshTasks[i].state = "sleeping"
    /\ refreshTasks[i].sleepLeft = 0
    /\ IF ~_pending_refresh
       THEN /\ refreshTasks' = [refreshTasks EXCEPT ![i] = FreeTask]
            /\ TaskEnds(i)
            /\ UNCHANGED _pending_refresh
       ELSE /\ _pending_refresh' = FALSE
            /\ IF /\ _global_last_refresh # None
                  /\ _global_last_refresh < _get_backoff_interval
               THEN /\ refreshTasks' = [refreshTasks EXCEPT ![i] = FreeTask]
                    /\ TaskEnds(i)
               ELSE /\ refreshTasks' =
                         [refreshTasks EXCEPT ![i].state = "fetching"]
                    /\ UNCHANGED _debounce_task
    /\ UNCHANGED <<_last_refresh_per_entity, _global_last_refresh,
                   _consecutive_failures, quotaReason, sinceFetch, burstSize,
                   burstFetches>>
    /\ UNCHANGED refreshEnv

\* client.api_call("zoneStates") has its token and sends the GET
FetchSend(i) ==
    /\ refreshTasks[i].state = "fetching"
    /\ refreshTasks' = [refreshTasks EXCEPT ![i].state = "sent"]
    /\ sinceFetch' = 0
    /\ burstFetches' = IF refreshTasks[i].inBurst
                       THEN Min(burstFetches + 1, MaxBurst) ELSE burstFetches
    /\ UNCHANGED <<_last_refresh_per_entity, _global_last_refresh,
                   _consecutive_failures, _pending_refresh, _debounce_task,
                   quotaReason, burstSize>>
    /\ UNCHANGED refreshEnv

FetchOutcomes ==
    {"ok", "no_token", "no_data"}

\* a refresh whose failure is swallowed without being counted
FetchReturns_Uncounted(i, outcome) ==
    /\ refreshTasks[i].state = IF outcome = "no_token" THEN "fetching"
                               ELSE "sent"
    /\ IF outcome = "ok"
       THEN /\ _global_last_refresh' = 0
            /\ _consecutive_failures' = 0
       ELSE UNCHANGED <<_consecutive_failures, _global_last_refresh>>
    /\ refreshTasks' = [refreshTasks EXCEPT ![i] = FreeTask]
    /\ TaskEnds(i)
    /\ UNCHANGED <<_last_refresh_per_entity, _pending_refresh, quotaReason,
                   sinceFetch, burstSize, burstFetches>>
    /\ UNCHANGED refreshEnv

\* _async_fetch_zone_states returns or raises: api_call gives None without a
\* GET when there is no token ("no_token"), and after a GET that failed
\* ("no_data")
FetchReturns(i, outcome) ==
    /\ refreshTasks[i].state = IF outcome = "no_token" THEN "fetching"
                               ELSE "sent"
    /\ IF outcome = "ok"
       THEN /\ _global_last_refresh' = 0
            /\ _consecutive_failures' = 0
       ELSE /\ _consecutive_failures < MaxFailures
            /\ _consecutive_failures' = _consecutive_failures + 1
            /\ UNCHANGED _global_last_refresh
    /\ refreshTasks' = [refreshTasks EXCEPT ![i] = FreeTask]
    /\ TaskEnds(i)
    /\ UNCHANGED <<_last_refresh_per_entity, _pending_refresh, quotaReason,
                   sinceFetch, burstSize, burstFetches>>
    /\ UNCHANGED refreshEnv

\* one second passes; a task whose delay has elapsed resumes first
Tick ==
    /\ \A i \in RefreshTaskIds :
          refreshTasks[i].state = "sleeping" => refreshTasks[i].sleepLeft > 0
    /\ refreshTasks' =
          [i \in RefreshTaskIds |->
             IF refreshTasks[i].state = "sleeping"
             THEN [refreshTasks[i] EXCEPT !.sleepLeft = @ - 1]
             ELSE refreshTasks[i]]
    /\ _global_last_refresh' =
          IF _global_last_refresh = None THEN None
          ELSE Min(_global_last_refresh + 1, _max_backoff_interval)
    /\ sinceFetch' = IF sinceFetch = None THEN None
                     ELSE Min(sinceFetch + 1, MaxGap)
    /\ _last_refresh_per_entity' =
          [e \in CommandEntityIds |->
             IF _last_refresh_per_entity[e] = None THEN None
             ELSE Min(_last_refresh_per_entity[e] + 1,
                      _min_per_entity_interval)]
    /\ UNCHANGED <<_consecutive_failures, _pending_refresh, _debounce_task,
                   quotaReason, burstSize, burstFetches>>
    /\ UNCHANGED refreshEnv

\* an entity's command handler (climate, switch, water_heater): get_handler,
\* then trigger_refresh on the instance; get_handler creating a second
\* instance after a teardown is outside the model
CommandRefresh(entity_id, rl_info) ==
    /\ _handler # None
    /\ trigger_refresh(entity_id, rl_info)
    /\ UNCHANGED entityVars

\* cleanup_handler, as async_unload_entry calls it: the module forgets the
\* instance; the instance and the task it created are left as they are
cleanup_handler ==
    /\ _handler # None
    /\ _handler' = None
    /\ UNCHANGED <<fileVars, tokenVars, syncVars, pollVars, refreshVars,
                   syncPass, errorHandler, componentVars, entityVars,
                   serviceVars>>

\* ================================================ TadoAsyncClient.async_sync
\* the endpoint strings and the words _detect_call_type looks for, as
\* character sequences
Chars ==
    ("zoneStates" :>
          <<"z", "o", "n", "e", "S", "t", "a", "t", "e", "s">>)
    @@ ("weather" :>
          <<"w", "e", "a", "t", "h", "e", "r">>)
    @@ ("state" :>
          <<"s", "t", "a", "t", "e">>)
    @@ ("mobileDevices" :>
          <<"m", "o", "b", "i", "l", "e", "D", "e", "v", "i", "c", "e", "s">>)
    @@ ("zones" :>
          <<"z", "o", "n", "e", "s">>)
    @@ ("zones/1/capabilities" :>
          <<"z", "o", "n", "e", "s", "/", "1", "/", "c", "a", "p", "a", "b", "i", "l", "i", "t", "i", "e", "s">>)
    @@ ("overlay" :>
          <<"o", "v", "e", "r", "l", "a", "y">>)
    @@ ("capabilities" :>
          <<"c", "a", "p", "a", "b", "i", "l", "i", "t", "i", "e", "s">>)
    @@ ("presenceLock" :>
          <<"p", "r", "e", "s", "e", "n", "c", "e", "L", "o", "c", "k">>)

\* Python's `w in s` on strings
Contains(s, w) ==
    \E i \in 1..(Len(s) - Len(w) + 1) : SubSeq(s, i, i + Len(w) - 1) = w

_detect_call_type(endpoint) ==
    LET has(w) == Contains(Chars[endpoint], Chars[w])
    IN  IF has("zoneStates") THEN 1
        ELSE IF has("weather") THEN 2
        ELSE IF has("zones") /\ ~has("overlay") /\ ~has("capabilities") THEN 3
        ELSE IF has("mobileDevices") THEN 4
        ELSE IF has("overlay") THEN 5
        ELSE IF has("presenceLock") THEN 6
        ELSE IF endpoint = "state" THEN 7
        ELSE None

\* api_call(endpoint), GET: the status received (None without a response),
\* the records the tracker got for the call, and what the call returns.
\* Without a token or home_id no request is sent ("no_token"); the answer is
\* 200 with data ("ok"), 200 with an empty body, an error status, or none
\* ("network_error"); "write_failed" is data whose _save_json_file raises in
\* async_sync
api_call(endpoint, outcome) ==
    LET status == CASE outcome \in {"ok", "empty", "write_failed"} -> 200
                    [] outcome = "http_401" -> 401
                    [] outcome = "http_429" -> 429
                    [] outcome = "http_500" -> 500
                    [] OTHER -> None
        call_type == _detect_call_type(endpoint)
    IN  [endpoint |-> endpoint,
         sent |-> outcome # "no_token",
         status |-> status,
         call_type |-> call_type,
         records |-> IF status # None /\ call_type # None THEN 1 ELSE 0,
         returned |-> CASE outcome \in {"ok", "write_failed"} -> "data"
                        [] outcome = "empty" -> "empty"
                        [] OTHER -> "none"]

\* no pass running, nothing called yet
IdlePass ==
    [pc |-> "idle", quick |-> FALSE, weather_enabled |-> FALSE,
     mobile_devices_enabled |-> FALSE, mobile_devices_frequent_sync |-> FALSE,
     ac_zones |-> FALSE, issued |-> <<>>, fetched |-> {},
     last |-> [endpoint |-> "", sent |-> FALSE, status |-> None,
               call_type |-> None, records |-> 0, returned |-> "none"],
     result |-> "", saved |-> ""]

\* async_sync is called: the pass starts with the zoneStates fetch; ac_zones
\* tells whether the home has an air-conditioning zone
async_sync(quick, weather_enabled, mobile_devices_enabled, mobile_devices_frequent_sync, ac_zones) ==
    /\ syncPass.pc \in {"idle", "done"}
    /\ syncPass' = [IdlePass EXCEPT
                      !.pc = "zoneStates",
                      !.quick = quick,
                      !.weather_enabled = weather_enabled,
                      !.mobile_devices_enabled = mobile_devices_enabled,
                      !.mobile_devices_frequent_sync =
                          mobile_devices_frequent_sync,
                      !.ac_zones = ac_zones]
    /\ UNCHANGED <<fileVars, tokenVars, syncVars, pollVars, refreshVars,
                   _handler, errorHandler, componentVars,
                   entityVars,
                   serviceVars>>

\* a pass that goes on without zone states
HardFail_Never(stage, returned) ==
    FALSE

\* async_sync: zones_data is None ends the pass with failure
HardFail(stage, returned) ==
    stage = "zoneStates" /\ returned = "none"

\* async_sync: the fetch that follows the one of `stage`, which returned
\* `returned`; "done" when none follows
StageAfter(p, stage, returned) ==
    LET full == IF ~p.quick THEN "zones" ELSE "done"
        caps == IF p.ac_zones THEN "capabilities" ELSE "done"
    IN  CASE stage = "zoneStates" ->
               IF p.weather_enabled THEN "weather" ELSE "state"
          [] stage = "weather" -> "state"
          [] stage = "state" ->
               IF /\ p.quick /\ p.mobile_devices_enabled
                  /\ p.mobile_devices_frequent_sync
               THEN "mobile_quick" ELSE full
          [] stage = "mobile_quick" -> full
          [] stage = "zones" ->
               IF returned # "data" THEN "done"
               ELSE IF p.mobile_devices_enabled THEN "mobile_full" ELSE caps
          [] stage = "mobile_full" -> caps
          [] OTHER -> "done"

\* the api_call of the current stage returns and async_sync runs on to its
\* next api_call or to its return (save_ratelimit with "ok" or "error")
PassFetch(outcome) ==
    /\ syncPass.pc \notin {"idle", "done"}
    /\ LET stage == syncPass.pc
           endpoint == CASE stage \in {"mobile_quick", "mobile_full"} ->
                             "mobileDevices"
                         [] stage = "capabilities" -> "zones/1/capabilities"
                         [] OTHER -> stage
           call == api_call(endpoint, outcome)
           failed == \/ HardFail(stage, call.returned)
                     \/ outcome = "write_failed"
           next == IF failed THEN "done"
                   ELSE StageAfter(syncPass, stage, call.returned)
       IN  syncPass' =
              [syncPass EXCEPT
                 !.pc = next,
                 !.issued = Append(@, endpoint),
                 !.fetched = IF call.returned # "none" THEN @ \cup {endpoint}
                             ELSE @,
                 !.last = call,
                 !.result = IF failed THEN "False"
                            ELSE IF next = "done" THEN "True" ELSE @,
                 !.saved = IF failed THEN "error"
                           ELSE IF next = "done" THEN "ok" ELSE @]
    /\ UNCHANGED <<fileVars, tokenVars, syncVars, pollVars, refreshVars,
                   _handler, errorHandler, componentVars,
                   entityVars,
                   serviceVars>>

\* ============================================ APIErrorHandler.handle_api_call
\* APIErrorHandler.__init__: the defaults of its two settings
retry_delay ==
    5

max_retries ==
    1

\* the calls of the legacy client that are followed
MaxLegacyCalls ==
    5

\* the module's handler instance, APIErrorHandler(), before any call; tracked
\* is the list of status codes the legacy client's tracker was given
_error_handler ==
    [retry_delay |-> retry_delay, max_retries |-> max_retries, pc |-> "idle",
     attempt |-> 0, log |-> <<>>, slept |-> <<>>, result |-> "",
     tracked |-> <<>>]

\* the function TadoAPI.api_call hands to handle_api_call: _http_request
\* turns the vendor's answer (a status code, or None when no response
\* arrives) into data or into an exception; status_code is what the tracker
\* is given (None when the call is not tracked)
_make_api_call(answer) ==
    CASE answer = 200 -> [raised |-> "", code |-> None, status_code |-> 200]
      [] answer = 429 ->
           [raised |-> "RateLimitError", code |-> None, status_code |-> None]
      [] answer \in {401, 403} ->
           [raised |-> "AuthenticationError", code |-> None,
            status_code |-> None]
      [] OTHER -> [raised |-> "TadoAPIError", code |-> None, status_code |-> 500]

\* handle_api_call: what follows an attempt whose api_func raised `raised`
\* (HTTPError with `code`), or returned when nothing was raised
Disposition(raised, code, attempt, retries) ==
    CASE raised = "" -> "result"
      [] raised = "HTTPError" /\ code = 429 -> "RateLimitError"
      [] raised = "HTTPError" /\ code \in {401, 403} -> "AuthenticationError"
      [] raised \in {"HTTPError", "URLError"} ->
           IF attempt < retries THEN "retry" ELSE "None"
      [] OTHER -> "None"

\* TadoAPI.api_call enters handle_api_call(_make_api_call)
handle_api_call ==
    /\ errorHandler.pc # "calling"
    /\ Len(errorHandler.tracked) < MaxLegacyCalls
    /\ errorHandler' = [errorHandler EXCEPT !.pc = "calling", !.attempt = 0,
                                            !.log = <<>>, !.slept = <<>>,
                                            !.result = ""]
    /\ UNCHANGED <<fileVars, tokenVars, syncVars, pollVars, refreshVars,
                   _handler, syncPass, componentVars,
                   entityVars,
                   serviceVars>>

\* one attempt: api_func runs against the vendor's answer, and
\* handle_api_call returns, raises, or sleeps retry_delay and goes round again
api_func(answer) ==
    /\ errorHandler.pc = "calling"
    /\ LET h == errorHandler
           call == _make_api_call(answer)
           d == Disposition(call.raised, call.code, h.attempt, h.max_retries)
       IN  errorHandler' =
              [h EXCEPT
                 !.log = Append(@, answer),
                 !.tracked = IF call.status_code # None
                             THEN Append(@, call.status_code) ELSE @,
                 !.pc = IF d = "retry" THEN "calling" ELSE "done",
                 !.attempt = IF d = "retry" THEN @ + 1 ELSE @,
                 !.slept = IF d = "retry" THEN Append(@, h.retry_delay) ELSE @,
                 !.result = IF d = "retry" THEN "" ELSE d]
    /\ UNCHANGED <<fileVars, tokenVars, syncVars, pollVars, refreshVars,
                   _handler, syncPass, componentVars,
                   entityVars,
                   serviceVars>>

\* ============================================================== initial state
\* option sets an entry can hold: none stored, all set to valid values, and
\* out-of-range values as an old entry or the host UI may hand them over
OptionChoices ==
    { EmptyDict,
      [k \in OptionKeys |->
         CASE k \in BoolOptionKeys -> 1
           [] k = "day_start_hour" -> 6
           [] k = "night_start_hour" -> 22
           [] k = "custom_day_interval" -> 5
           [] k = "custom_night_interval" -> 30
           [] k = "api_history_retention_days" -> 0
           [] OTHER -> 30],
      [k \in OptionKeys \ {"offset_enabled"} |->
         CASE k \in BoolOptionKeys -> 0
           [] k = "day_start_hour" -> 24
           [] k = "night_start_hour" -> -2
           [] k = "custom_day_interval" -> 0
           [] k = "custom_night_interval" -> 2000
           [] k = "api_history_retention_days" -> 400
           [] OTHER -> 2] }

\* config.json as setup can find it: never written, written by the config
\* flow, mirrored by an earlier sync, and with the refresh token cleared
InitialConfigFiles ==
    { [kind |-> "absent", data |-> EmptyDict],
      [kind |-> "ok", data |-> [k \in {"home_id", "refresh_token"} |-> 1]],
      [kind |-> "ok",
       data |-> [k \in OptionKeys \cup {"home_id", "refresh_token"} |->
                   IF k \in {"home_id", "refresh_token"} THEN 1 ELSE 0]],
      [kind |-> "ok",
       data |-> [k \in {"home_id", "refresh_token"} |->
                   IF k = "home_id" THEN 1 ELSE None]] }

InitSync ==
    /\ configLock = 0
    /\ syncPc = [s \in Syncers |-> "idle"]
    /\ syncSaw = [s \in Syncers |-> "absent"]
    /\ readData = [s \in Syncers |-> EmptyDict]
    /\ syncData = [s \in Syncers |-> EmptyDict]
    /\ flowPc = "idle"
    /\ flowData = EmptyDict
    /\ flowStale = FALSE

\* before the first async_setup_entry
InitPoll ==
    /\ hassDomain = FALSE
    /\ polling_cancel = None
    /\ activeTimers = {}
    /\ timerOwner = [t \in Timers |-> 0]
    /\ setupPc = [g \in Setups |-> "none"]
    /\ unloadPc = "idle"
    /\ cancel_interval = [g \in Setups |-> None]
    /\ current_interval = [g \in Setups |-> 0]
    /\ last_full_sync = [g \in Setups |-> None]
    /\ taskPc = [g \in Setups |-> [i \in SyncRuns |-> "idle"]]
    /\ taskFull = [g \in Setups |-> [i \in SyncRuns |-> FALSE]]

\* ImmediateRefreshHandler.__init__
InitRefresh ==
    /\ _last_refresh_per_entity = [e \in CommandEntityIds |-> None]
    /\ _global_last_refresh = None
    /\ _consecutive_failures = 0
    /\ _pending_refresh = FALSE
    /\ _debounce_task = None
    /\ refreshTasks = [i \in RefreshTaskIds |-> FreeTask]
    /\ quotaReason = ""
    /\ sinceFetch = None
    /\ burstSize = 0
    /\ burstFetches = 0

\* ============================================================= AuthManager
\* AuthManager.get_access_token under self._lock, up to the token POST that
\* _refresh_token sends with the lock held; `expired` is what the comparison
\* of datetime.now() with the cached expiry finds
AuthManager_get_access_token(expired) ==
    /\ authManager.pc = "idle"
    /\ LET a == authManager
           expiry == IF a._token_expiry = "future" /\ expired THEN "past"
                     ELSE a._token_expiry
           config == _load_config
       IN  IF a._access_token # None /\ expiry = "future"
           THEN authManager' = [a EXCEPT !.outcome = "cached",
                                         !.result = a._access_token]
           ELSE IF Get(config, "refresh_token") = None
           THEN /\ a._consecutive_failures < MaxFailures
                /\ authManager' =
                      [a EXCEPT !._token_expiry = expiry,
                                !._consecutive_failures = @ + 1,
                                !.notified = FALSE,
                                !.outcome = "no_refresh_token",
                                !.result = None]
           ELSE authManager' =
                   [a EXCEPT !.pc = "posting",
                             !._token_expiry = expiry,
                             !._refresh_in_progress = TRUE,
                             !.notified = FALSE,
                             !.config = config,
                             !.outcome = "",
                             !.result = None]
    /\ UNCHANGED <<fileVars, tokenVars, syncVars, pollVars, refreshVars,
                   _handler, syncPass, errorHandler, entries, authorize,
                   climate, validation, entityVars,
                   serviceVars>>

\* _refresh_token from the answer of urlopen to its return; notified says
\* whether this attempt called _refresh_condition.notify_all() (after the
\* token is cached, and at the end of the except block).  An HTTP error
\* status makes urlopen raise HTTPError, whose str() is
\* "HTTP Error <code>: <reason phrase>": the response body, where the vendor
\* names the OAuth error, is not part of it
AuthManager_refresh_response(outcome) ==
    /\ authManager.pc = "posting"
    /\ outcome \in {"ok_same", "ok_rotated", "ok_rotated_save_failed"}
          => nextAT < MaxRefresh
    /\ outcome \in {"ok_rotated", "ok_rotated_save_failed"} => nextRT < MaxRT
    /\ outcome \notin {"ok_same", "ok_rotated"}
          => authManager._consecutive_failures < MaxFailures
    /\ LET a == authManager
           str_e == CASE outcome = "invalid_grant" ->
                            {"HTTP Error 400", "Bad Request"}
                      [] outcome = "http_error" ->
                            {"HTTP Error 500", "Internal Server Error"}
                      [] outcome = "network_error" ->
                            {"urlopen error", "timed out"}
                      [] outcome = "ok_rotated_save_failed" ->
                            {"No space left on device"}
                      [] OTHER -> {}
           failed == [a EXCEPT !.pc = "idle",
                               !._refresh_in_progress = FALSE,
                               !._consecutive_failures = @ + 1,
                               !.notified = outcome # "ok_no_access_token",
                               !.outcome = outcome,
                               !.result = None]
           cached == [a EXCEPT !.pc = "idle",
                               !._refresh_in_progress = FALSE,
                               !._consecutive_failures = 0,
                               !.notified = TRUE,
                               !._access_token = nextAT + 1,
                               !._token_expiry = "future",
                               !.outcome = outcome,
                               !.result = nextAT + 1]
       IN  CASE outcome = "ok_same" ->
                  /\ authManager' = cached
                  /\ nextAT' = nextAT + 1
                  /\ UNCHANGED <<fileVars, nextRT>>
             [] outcome = "ok_rotated" ->
                  /\ authManager' =
                        [cached EXCEPT !.config =
                            Put(a.config, "refresh_token", nextRT + 1)]
                  /\ AtomicReplace(Put(a.config, "refresh_token", nextRT + 1))
                  /\ nextAT' = nextAT + 1
                  /\ nextRT' = nextRT + 1
             [] outcome = "ok_rotated_save_failed" ->
                  /\ authManager' =
                        [failed EXCEPT !.config =
                            Put(a.config, "refresh_token", nextRT + 1)]
                  /\ nextAT' = nextAT + 1
                  /\ nextRT' = nextRT + 1
                  /\ UNCHANGED fileVars
             [] outcome = "ok_no_access_token" ->
                  /\ authManager' = failed
                  /\ UNCHANGED <<fileVars, nextAT, nextRT>>
             [] OTHER ->
                  /\ authManager' = failed
                  /\ IF "invalid_grant" \in str_e
                     THEN AtomicReplace(Put(_load_config, "refresh_token",
                                            None))
                     ELSE UNCHANGED fileVars
                  /\ UNCHANGED <<nextAT, nextRT>>
    /\ UNCHANGED <<accessToken, tokenExpiry, refreshLock, waitQ, pc, tok,
                   cfgLocal, sentRT, observed, invalidated, refreshed,
                   last401, handoff>>
    /\ UNCHANGED <<syncVars, pollVars, refreshVars, _handler, syncPass,
                   errorHandler, entries, authorize, climate, validation,
                   entityVars,
                   serviceVars>>

\* invalidate_token, as the legacy client calls it after a 401
AuthManager_invalidate_token ==
    /\ authManager.pc = "idle"
    /\ authManager._access_token # None
    /\ authManager' = [authManager EXCEPT !._access_token = None,
                                          !._token_expiry = "unset"]
    /\ UNCHANGED <<fileVars, tokenVars, syncVars, pollVars, refreshVars,
                   _handler, syncPass, errorHandler, entries, authorize,
                   climate, validation, entityVars,
                   serviceVars>>

\* ========================================== config entries: migrate, setup
\* the entries Home Assistant's store holds at startup, before the
\* integration has touched any: written by the current config flow
\* (VERSION 5) or left by an older release
StoredEntry(r, version) ==
    /\ \A e \in DOMAIN entries.by_id :
          entries.by_id[e].stage \in {"none", "loaded"}
    /\ entries.by_id[r].stage = "none"
    /\ entries' = [entries EXCEPT !.by_id[r].present = TRUE,
                                  !.by_id[r].version = version,
                                  !.by_id[r].stage = "loaded"]
    /\ UNCHANGED <<fileVars, tokenVars, syncVars, pollVars, refreshVars,
                   _handler, syncPass, errorHandler, authManager, authorize,
                   climate, validation, entityVars,
                   serviceVars>>

\* a migration with the `== X` pattern: only the step that starts at the
\* entry's version runs
MigrationLog_Exact(initial_version) ==
    (IF initial_version = 1 THEN <<"v2">> ELSE <<>>)
    \o (IF initial_version \in {2, 3} THEN <<"v4">> ELSE <<>>)
    \o (IF initial_version = 4 THEN <<"v5">> ELSE <<>>)
    \o (IF initial_version < 5 THEN <<"update_entry">> ELSE <<>>)

\* async_migrate_entry after the data directory move: the steps it runs and
\* its call of async_update_entry(version=5), in order
MigrationLog(initial_version) ==
    (IF initial_version < 2 THEN <<"v2">> ELSE <<>>)
    \o (IF initial_version < 4 THEN <<"v4">> ELSE <<>>)
    \o (IF initial_version < 5 THEN <<"v5">> ELSE <<>>)
    \o (IF initial_version < 5 THEN <<"update_entry">> ELSE <<>>)

\* async_migrate_entry (it has no await).  fs is what the data directory
\* move at its top finds: "settled" when there is nothing to move, "moved"
\* when DATA_DIR was created and filled from the legacy directory,
\* "mkdir_failed" when DATA_DIR could not be created: return False
async_migrate_entry(r, fs) ==
    /\ entries.by_id[r].present
    /\ entries.by_id[r].stage = "loaded"
    /\ entries.data_dir = "settled" => fs = "settled"
    /\ entries.data_dir = "legacy_only" => fs # "settled"
    /\ LET e == entries.by_id[r]
           initial_version == e.version
           log == MigrationLog(initial_version)
       IN  entries' =
              IF fs = "mkdir_failed"
              THEN [entries EXCEPT
                      !.data_dir = "legacy_only",
                      !.by_id[r].initial_version = initial_version,
                      !.by_id[r].migrated = "False",
                      !.by_id[r].stage = "migration_failed"]
              ELSE [entries EXCEPT
                      !.data_dir = "settled",
                      !.by_id[r].initial_version = initial_version,
                      !.by_id[r].migrated = "True",
                      !.by_id[r].log = log,
                      !.by_id[r].version =
                          IF \E i \in DOMAIN log : log[i] = "update_entry"
                          THEN 5 ELSE e.version,
                      !.by_id[r].stage = "migrated"]
    /\ UNCHANGED <<fileVars, tokenVars, syncVars, pollVars, refreshVars,
                   _handler, syncPass, errorHandler, authManager, authorize,
                   climate, validation, entityVars,
                   serviceVars>>

\* async_setup_entry up to its first await: the duplicate check.  Home
\* Assistant calls it for an entry at the current version, migrated first
\* when its stored version was older
async_setup_entry(r) ==
    /\ entries.by_id[r].present
    /\ \/ entries.by_id[r].stage = "migrated"
       \/ entries.by_id[r].stage = "loaded" /\ entries.by_id[r].version = 5
    /\ LET all_entries == {e \in DOMAIN entries.by_id :
                              entries.by_id[e].present}
           Before(a, b) ==
               \/ entries.by_id[a].version > entries.by_id[b].version
               \/ /\ entries.by_id[a].version = entries.by_id[b].version
                  /\ a > b
           entries_by_version ==
               CHOOSE s \in [1..Cardinality(all_entries) -> all_entries] :
                   \A i, j \in DOMAIN s : i < j => Before(s[i], s[j])
           keeper_entry_id == entries_by_version[1]
       IN  entries' =
              IF Cardinality(all_entries) <= 1
              THEN [entries EXCEPT !.by_id[r].stage = "running"]
              ELSE IF r # keeper_entry_id
              THEN [entries EXCEPT !.by_id[r].stage = "aborted",
                                   !.by_id[r].keeper = keeper_entry_id]
              ELSE IF r \in entries.cleanup
              THEN [entries EXCEPT !.by_id[r].stage = "running",
                                   !.by_id[r].keeper = keeper_entry_id]
              ELSE [entries EXCEPT !.cleanup = @ \cup {r},
                                   !.by_id[r].stage = "removing",
                                   !.by_id[r].keeper = keeper_entry_id,
                                   !.by_id[r].remove =
                                       Tail(entries_by_version)]
    /\ UNCHANGED <<fileVars, tokenVars, syncVars, pollVars, refreshVars,
                   _handler, syncPass, errorHandler, authManager, authorize,
                   climate, validation, entityVars,
                   serviceVars>>

\* ... one `await hass.config_entries.async_remove(old_entry.entry_id)` of
\* the keeper's loop returns, or raises and is logged
async_remove(r, removed) ==
    /\ entries.by_id[r].stage = "removing"
    /\ LET old_entry == Head(entries.by_id[r].remove)
           rest == Tail(entries.by_id[r].remove)
           after == [entries.by_id EXCEPT
                       ![old_entry] =
                           IF removed
                           THEN [@ EXCEPT !.present = FALSE,
                                          !.stage = "removed"]
                           ELSE @]
       IN  entries' =
              [entries EXCEPT
                 !.by_id = [after EXCEPT
                              ![r].remove = rest,
                              ![r].stage = IF rest = <<>> /\ @ = "removing"
                                           THEN "running" ELSE @]]
    /\ UNCHANGED <<fileVars, tokenVars, syncVars, pollVars, refreshVars,
                   _handler, syncPass, errorHandler, authManager, authorize,
                   climate, validation, entityVars,
                   serviceVars>>

\* ======================================= the config flow: user, authorize
\* async_step_user with user_input: _request_device_code, then the authorize
\* form; a flow that has ended may be started anew
async_step_user(device_code_ok) ==
    /\ authorize.step \in {"user", "select_home", "abort"}
    /\ authorize' = [step |-> IF device_code_ok THEN "authorize" ELSE "user",
                     errors |-> IF device_code_ok THEN ""
                                ELSE "cannot_connect",
                     reason |-> "", _check_count |-> 0, response |-> "",
                     result |-> "", slept |-> 0]
    /\ UNCHANGED <<fileVars, tokenVars, syncVars, pollVars, refreshVars,
                   _handler, syncPass, errorHandler, authManager, entries,
                   climate, validation, entityVars,
                   serviceVars>>

\* async_step_authorize with user_input (Submit): _check_authorization posts
\* the device code and maps the vendor's answer to success, pending, expired
\* or error; the step then moves on, aborts or shows its form again
async_step_authorize(response) ==
    /\ authorize.step = "authorize"
    /\ authorize._check_count < MaxChecks
    /\ LET result ==
               CASE response = "200_tokens" -> "success"
                 [] response = "200_tokens_homes_failed" -> "error"
                 [] response = "200_no_tokens" -> "error"
                 [] response = "400_authorization_pending" -> "pending"
                 [] response = "400_slow_down" -> "pending"
                 [] response = "400_expired_token" -> "expired"
                 [] response = "400_access_denied" -> "error"
                 [] response = "500" -> "error"
                 [] response = "exception" -> "error"
       IN  authorize' =
              [authorize EXCEPT
                 !._check_count = @ + 1,
                 !.response = response,
                 !.result = result,
                 !.slept = IF response = "400_slow_down" THEN 2 ELSE 0,
                 !.step = CASE result = "success" -> "select_home"
                            [] result = "expired" -> "abort"
                            [] OTHER -> "authorize",
                 !.reason = IF result = "expired" THEN "timeout" ELSE "",
                 !.errors = CASE result = "pending" -> "auth_pending"
                              [] result = "error" -> "authorization_failed"
                              [] OTHER -> ""]
    /\ UNCHANGED <<fileVars, tokenVars, syncVars, pollVars, refreshVars,
                   _handler, syncPass, errorHandler, authManager, entries,
                   climate, validation, entityVars,
                   serviceVars>>

\* ================================== TadoResumeAllSchedulesButton, button.py
\* async_press up to its first delete_zone_overlay: zones_info is loaded and
\* the press returns at once when it holds no zone
async_press(zones) ==
    /\ button.pc \in {"idle", "done"}
    /\ button' = [pc |-> IF zones = 0 THEN "done" ELSE "deleting",
                  entity_id |-> button.entity_id, zones |-> zones,
                  log |-> <<>>, success_count |-> 0, fail_count |-> 0]
    /\ UNCHANGED <<fileVars, tokenVars, syncVars, pollVars, refreshVars,
                   _handler, syncPass, errorHandler, componentVars,
                   waterHeater, serviceVars>>

\* ... the await of one client.delete_zone_overlay(zone_id) ends: it
\* returned True or False, or it raised and the error was logged; after the
\* last zone the press calls handler.trigger_refresh(self.entity_id, ...)
delete_zone_overlay(outcome, rl_info) ==
    /\ button.pc = "deleting"
    /\ LET log == Append(button.log, outcome)
           last == Len(log) = button.zones
       IN  /\ button' =
                 [button EXCEPT
                    !.log = log,
                    !.success_count = IF outcome = "raised" THEN @ ELSE @ + 1,
                    !.fail_count = IF outcome = "raised" THEN @ + 1 ELSE @,
                    !.pc = IF last THEN "done" ELSE "deleting"]
           /\ IF last
              THEN trigger_refresh(button.entity_id, rl_info)
              ELSE UNCHANGED <<refreshVars, commandEnv>>
    /\ UNCHANGED waterHeater

\* ================================================ TadoWaterHeater, modes
\* update(): the displayed mode follows the zone state in zones.json; it
\* runs in an executor thread whenever Home Assistant polls the entity
TadoWaterHeater_update(zone_data) ==
    /\ waterHeater' =
          [waterHeater EXCEPT
             !._attr_current_operation =
                 IF ~zone_data.present THEN @
                 ELSE IF ~zone_data.overlay \/ zone_data.overlayType = "None"
                 THEN "auto"
                 ELSE IF zone_data.overlayType = "TIMER" THEN "heat"
                 ELSE IF zone_data.overlayType = "MANUAL"
                 THEN (IF zone_data.power = "OFF" THEN "off" ELSE "heat")
                 ELSE "auto",
             !._attr_available = zone_data.present]
    /\ UNCHANGED <<fileVars, tokenVars, syncVars, pollVars, refreshVars,
                   _handler, syncPass, errorHandler, componentVars, button,
                   serviceVars>>

\* async_set_operation_mode up to the await of its first executor job
async_set_operation_mode(operation_mode) ==
    /\ waterHeater.pc \in {"idle", "done"}
    /\ waterHeater' =
          [waterHeater EXCEPT
             !.pc = "calling",
             !.operation_mode = operation_mode,
             !.previous_mode = waterHeater._attr_current_operation,
             !.success = FALSE,
             !.attempt = 0,
             !.log = <<>>]
    /\ UNCHANGED <<fileVars, tokenVars, syncVars, pollVars, refreshVars,
                   _handler, syncPass, errorHandler, componentVars, button,
                   serviceVars>>

\* ... the executor job of this attempt (_resume_schedule_blocking,
\* _set_timer_blocking or _turn_off_blocking) returns: on success the mode is
\* displayed and a refresh requested; on failure the loop sleeps before its
\* second attempt, or, after the second, the previous mode is put back
executor_job_returns(success, rl_info) ==
    /\ waterHeater.pc = "calling"
    /\ LET w == waterHeater
       IN  IF success
           THEN /\ waterHeater' =
                      [w EXCEPT !.pc = "done",
                                !.success = TRUE,
                                !._attr_current_operation = w.operation_mode,
                                !.log = Append(@, "call_ok")]
                /\ trigger_refresh(w.entity_id, rl_info)
           ELSE /\ waterHeater' =
                      IF w.attempt < 2 - 1   \* its max_retries is 2
                      THEN [w EXCEPT !.pc = "sleeping",
                                     !.log = Append(@, "call_failed")]
                      ELSE [w EXCEPT !.pc = "done",
                                     !._attr_current_operation =
                                         w.previous_mode,
                                     !.log = Append(@, "call_failed")]
                /\ UNCHANGED <<refreshVars, commandEnv>>
    /\ UNCHANGED button

\* a loop that goes on to its next attempt without waiting
asyncio_sleep_Skipped ==
    /\ waterHeater.pc = "sleeping"
    /\ waterHeater' = [waterHeater EXCEPT !.pc = "calling",
                                          !.attempt = @ + 1]
    /\ UNCHANGED <<fileVars, tokenVars, syncVars, pollVars, refreshVars,
                   _handler, syncPass, errorHandler, componentVars, button,
                   serviceVars>>

\* ... `await asyncio.sleep(5)` ends and the loop starts its next attempt
asyncio_sleep ==
    /\ waterHeater.pc = "sleeping"
    /\ waterHeater' = [waterHeater EXCEPT !.pc = "calling",
                                          !.attempt = @ + 1,
                                          !.log = Append(@, "sleep_5")]
    /\ UNCHANGED <<fileVars, tokenVars, syncVars, pollVars, refreshVars,
                   _handler, syncPass, errorHandler, componentVars, button,
                   serviceVars>>

\* ===================== ConfigurationManager.validate_config_updates
\* validate_config_updates(updates): the checks in the order of the code,
\* answering with the first failure.  A value is [type, value]; isinstance(v,
\* int) holds for Python's bool too (True is 1, False is 0)
validate_config_updates(updates) ==
    /\ validation.pc = "idle"
    /\ LET IsInt(v) == v.type \in {"int", "bool"}
           InRange(v, field, lo, hi, what) ==
               IF ~IsInt(v) THEN <<field, what>>
               ELSE IF v.value < lo \/ v.value > hi
               THEN <<field, "must be between">>
               ELSE <<>>
           validate_hour(v, field) ==
               InRange(v, field, MIN_HOUR, MAX_HOUR, "must be an integer")
           validate_interval(v, field) ==
               IF v.type = "none" THEN <<>>
               ELSE InRange(v, field, MIN_INTERVAL_MINUTES,
                            MAX_INTERVAL_MINUTES,
                            "must be an integer or null")
           validate_retention_days(v) ==
               InRange(v, "api_history_retention_days", MIN_RETENTION_DAYS,
                       MAX_RETENTION_DAYS, "must be an integer")
           Has(k) == k \in DOMAIN updates
           current(k, default) ==
               IF Has(k) THEN updates[k]
               ELSE [type |-> "int", value |-> get_hour(k, default)]
           validate_day_night_hours ==
               IF validate_hour(current("day_start_hour",
                                        DEFAULT_DAY_START_HOUR),
                                "day_start_hour") # <<>>
               THEN validate_hour(current("day_start_hour",
                                          DEFAULT_DAY_START_HOUR),
                                  "day_start_hour")
               ELSE validate_hour(current("night_start_hour",
                                          DEFAULT_NIGHT_START_HOUR),
                                  "night_start_hour")
           checks ==
               << IF Has("day_start_hour")
                  THEN validate_hour(updates["day_start_hour"],
                                     "day_start_hour") ELSE <<>>,
                  IF Has("night_start_hour")
                  THEN validate_hour(updates["night_start_hour"],
                                     "night_start_hour") ELSE <<>>,
                  IF Has("day_start_hour") \/ Has("night_start_hour")
                  THEN validate_day_night_hours ELSE <<>>,
                  IF Has("custom_day_interval")
                  THEN validate_interval(updates["custom_day_interval"],
                                         "custom_day_interval") ELSE <<>>,
                  IF Has("custom_night_interval")
                  THEN validate_interval(updates["custom_night_interval"],
                                         "custom_night_interval") ELSE <<>>,
                  IF Has("api_history_retention_days")
                  THEN validate_retention_days(
                           updates["api_history_retention_days"])
                  ELSE <<>>,
                  IF Has("weather_enabled")
                     /\ updates["weather_enabled"].type # "bool"
                  THEN <<"weather_enabled", "must be a boolean">>
                  ELSE <<>>,
                  IF Has("mobile_devices_enabled")
                     /\ updates["mobile_devices_enabled"].type # "bool"
                  THEN <<"mobile_devices_enabled", "must be a boolean">>
                  ELSE <<>>,
                  IF Has("test_mode_enabled")
                     /\ updates["test_mode_enabled"].type # "bool"
                  THEN <<"test_mode_enabled", "must be a boolean">>
                  ELSE <<>> >>
           failed == {i \in DOMAIN checks : checks[i] # <<>>}
           first == CHOOSE i \in failed : \A j \in failed : i <= j
       IN  validation' =
              [pc |-> "done", updates |-> updates,
               valid |-> failed = {},
               error |-> IF failed = {} THEN <<>> ELSE checks[first]]
    /\ UNCHANGED <<fileVars, tokenVars, syncVars, pollVars, refreshVars,
                   _handler, syncPass, errorHandler, authManager, entries,
                   authorize, climate, entityVars,
                   serviceVars>>

\* ========================================================== TadoClimate
\* update(): the entity's attributes from the zone's record in zones.json
\* (absent: the entity is unavailable and keeps the rest), then the preset
\* from mobile_devices.json (unreadable: the preset is kept)
TadoClimate_update(zone_data, mobile_devices) ==
    /\ climate' =
          IF ~zone_data.present
          THEN [climate EXCEPT !.pc = "done", !.zone_data = zone_data,
                               !._attr_available = FALSE]
          ELSE [pc |-> "done",
                zone_data |-> zone_data,
                _heating_power |-> zone_data.heatingPower,
                _overlay_type |-> zone_data.overlayType,
                _attr_hvac_action |->
                    IF zone_data.power # "ON" THEN "off"
                    ELSE IF zone_data.heatingPower > 0 THEN "heating"
                    ELSE "idle",
                _attr_target_temperature |->
                    IF zone_data.power = "ON" THEN zone_data.celsius
                    ELSE None,
                _attr_hvac_mode |->
                    IF zone_data.power = "ON"
                    THEN (IF zone_data.overlayType = "MANUAL" THEN "heat"
                          ELSE "auto")
                    ELSE "off",
                _attr_available |-> TRUE,
                _attr_preset_mode |->
                    CASE mobile_devices = "at_home" -> "home"
                      [] mobile_devices = "away" -> "away"
                      [] OTHER -> climate._attr_preset_mode]
    /\ UNCHANGED <<fileVars, tokenVars, syncVars, pollVars, refreshVars,
                   _handler, syncPass, errorHandler, authManager, entries,
                   authorize, validation, entityVars,
                   serviceVars>>

\* ================================================ the timer actions
\* f"{hours:02d}:{minutes:02d}:{seconds:02d}", the form of the strings the
\* timer button builds (its seconds are always 0)
TimePeriodString(hours, minutes, seconds) ==
    LET Digit == <<"0", "1", "2", "3", "4", "5", "6", "7", "8", "9">>
        d02(n) == IF n < 100
                  THEN <<Digit[(n \div 10) + 1], Digit[(n % 10) + 1]>>
                  ELSE <<Digit[(n \div 100) + 1], Digit[((n \div 10) % 10) + 1],
                         Digit[(n % 10) + 1]>>
    IN  d02(hours) \o <<":">> \o d02(minutes) \o <<":">> \o d02(seconds)

\* a parser that brings the minutes into the range instead of raising
parse_time_period_Clamped(time_period) ==
    [raised |-> FALSE,
     duration_minutes |->
         IF time_period.type = "timedelta"
         THEN Min(IF time_period.seconds \div 60 < 5
                  THEN 5 ELSE time_period.seconds \div 60, 1440)
         ELSE 60]

\* the conversion of call.data["time_period"] to minutes, the same code in
\* both handlers: a timedelta gives int(total_seconds() / 60); anything else
\* is str()-ed, split at ":" into three parts, each read by int() (spaces
\* around it and a sign allowed) and range-checked; then 5 <= minutes <=
\* 1440.  Every ValueError becomes vol.Invalid: raised
parse_time_period(time_period) ==
    LET Digit == <<"0", "1", "2", "3", "4", "5", "6", "7", "8", "9">>
        IsDigit(c) == \E i \in 1..10 : Digit[i] = c
        Val(c) == (CHOOSE i \in 1..10 : Digit[i] = c) - 1
        s == time_period.text
        Colons == {i \in 1..Len(s) : s[i] = ":"}
        c1 == CHOOSE i \in Colons : \A j \in Colons : i <= j
        c2 == CHOOSE i \in Colons : \A j \in Colons : i >= j
        time_parts == <<SubSeq(s, 1, c1 - 1), SubSeq(s, c1 + 1, c2 - 1),
                        SubSeq(s, c2 + 1, Len(s))>>
        int(p) ==
            LET Solid == {i \in 1..Len(p) : p[i] # " "}
                first == CHOOSE i \in Solid : \A j \in Solid : i <= j
                last == CHOOSE i \in Solid : \A j \in Solid : i >= j
                stripped == IF Solid = {} THEN <<>> ELSE SubSeq(p, first, last)
                signed == stripped # <<>> /\ stripped[1] \in {"+", "-"}
                digits == IF signed THEN Tail(stripped) ELSE stripped
                v[i \in 0..Len(digits)] ==
                    IF i = 0 THEN 0 ELSE v[i - 1] * 10 + Val(digits[i])
            IN  IF digits = <<>> \/ \E i \in 1..Len(digits) : ~IsDigit(digits[i])
                THEN [ok |-> FALSE, value |-> 0]
                ELSE [ok |-> TRUE,
                      value |-> IF signed /\ stripped[1] = "-"
                                THEN 0 - v[Len(digits)] ELSE v[Len(digits)]]
        hours == int(time_parts[1])
        minutes == int(time_parts[2])
        seconds == int(time_parts[3])
        Invalid == [raised |-> TRUE, duration_minutes |-> None]
        Checked(duration_minutes) ==
            IF duration_minutes < 5 \/ duration_minutes > 1440
            THEN Invalid
            ELSE [raised |-> FALSE, duration_minutes |-> duration_minutes]
    IN  CASE time_period.type = "None" -> Invalid
          [] time_period.type = "timedelta" ->
                IF time_period.seconds = 0 THEN Invalid
                ELSE Checked(IF time_period.seconds >= 0
                             THEN time_period.seconds \div 60
                             ELSE 0 - ((0 - time_period.seconds) \div 60))
          [] time_period.type = "str" ->
                IF s = <<>> \/ Cardinality(Colons) # 2 THEN Invalid
                ELSE IF ~hours.ok \/ ~minutes.ok \/ ~seconds.ok THEN Invalid
                ELSE IF ~(0 <= hours.value /\ hours.value <= 24) THEN Invalid
                ELSE IF ~(0 <= minutes.value /\ minutes.value <= 59) THEN Invalid
                ELSE IF ~(0 <= seconds.value /\ seconds.value <= 59) THEN Invalid
                ELSE Checked(hours.value * 60 + minutes.value
                             + (seconds.value \div 60))

\* handle_set_climate_timer for one entity that exists: the time period,
\* then the temperature (required), then the entity's async_set_timer with
\* the minutes
handle_set_climate_timer(time_period, temperature) ==
    /\ timer.pc = "idle"
    /\ LET parsed == parse_time_period(time_period)
           raised == IF parsed.raised THEN "time_period"
                     ELSE IF temperature = None THEN "temperature" ELSE ""
       IN  timer' = [pc |-> "done", service |-> "set_climate_timer",
                     time_period |-> time_period,
                     duration_minutes |-> parsed.duration_minutes,
                     raised |-> raised,
                     given |-> IF raised = "" THEN parsed.duration_minutes
                               ELSE None]
    /\ UNCHANGED <<fileVars, tokenVars, syncVars, pollVars, refreshVars,
                   _handler, syncPass, errorHandler, componentVars,
                   entityVars, tracker, manager, ratelimit>>

\* handle_set_water_heater_timer: the temperature is optional and must be
\* within 30..80 when given
handle_set_water_heater_timer(time_period, temperature) ==
    /\ timer.pc = "idle"
    /\ LET parsed == parse_time_period(time_period)
           raised == IF parsed.raised THEN "time_period"
                     ELSE IF temperature # None
                             /\ ~(30 <= temperature /\ temperature <= 80)
                          THEN "temperature" ELSE ""
       IN  timer' = [pc |-> "done", service |-> "set_water_heater_timer",
                     time_period |-> time_period,
                     duration_minutes |-> parsed.duration_minutes,
                     raised |-> raised,
                     given |-> IF raised = "" THEN parsed.duration_minutes
                               ELSE None]
    /\ UNCHANGED <<fileVars, tokenVars, syncVars, pollVars, refreshVars,
                   _handler, syncPass, errorHandler, componentVars,
                   entityVars, tracker, manager, ratelimit>>

\* the time periods of the calls: durations in whole seconds, HH:MM:SS
\* strings with every field in and out of its range, and strings that are
\* not three integers; `fields` names what a string was built from
TimePeriods ==
    {[type |-> "None", seconds |-> 0, text |-> <<>>, fields |-> <<>>]}
    \cup {[type |-> "timedelta", seconds |-> n, text |-> <<>>,
           fields |-> <<>>] :
             n \in {-5400, 0, 59, 240, 299, 300, 301, 5400, 5459, 86400,
                    86459, 86460}}
    \cup {[type |-> "str", seconds |-> 0,
           text |-> TimePeriodString(h, m, s), fields |-> <<h, m, s>>] :
             h \in 0..MaxTimerHours, m \in 0..MaxTimerMinutes, s \in {0}}
    \cup {[type |-> "str", seconds |-> 0,
           text |-> TimePeriodString(h, m, s), fields |-> <<h, m, s>>] :
             h \in {0, 1, 24}, m \in {4, 5, 59}, s \in {30, 59, 60}}
    \cup {[type |-> "str", seconds |-> 0, text |-> t, fields |-> <<>>] :
             t \in {<<>>, <<"9", "0">>, <<"0", "1", ":", "3", "0">>,
                    <<"0", "1", ":", "3", "0", ":", "0", "0", ":", "0", "0">>,
                    <<"a", "a", ":", "3", "0", ":", "0", "0">>,
                    <<"0", "1", ":", "3", "x", ":", "0", "0">>,
                    <<"-", "1", ":", "3", "0", ":", "0", "0">>,
                    <<"0", "1", ":", "3", "0", ":">>,
                    <<"1", ".", "5", ":", "0", "0", ":", "0", "0">>,
                    <<":", ":">>}}

\* ==================================================== ratelimit.json
\* the vendor's count of the account's calls in the current window, followed
\* around the Test Mode limit and the handler's 90% threshold
UsedCounts ==
    {0, 99, 100, 4600}

\* TadoAsyncClient.save_ratelimit at the end of async_sync or of
\* _async_fetch_zone_states: the calls just made were counted by the vendor,
\* the headers of the last response say so, the snapshot goes to
\* ratelimit.json
save_ratelimit(used, status) ==
    /\ \/ \E g \in Setups, i \in SyncRuns : taskPc[g][i] = "syncing"
       \/ \E i \in RefreshTaskIds : refreshTasks[i].state = "sent"
    /\ used >= ratelimit.used
    /\ ratelimit' = [used |-> used,
                     file |-> Snapshot(5000, 5000 - used, status)]
    /\ UNCHANGED <<fileVars, tokenVars, syncVars, pollVars, refreshVars,
                   _handler, syncPass, errorHandler, componentVars,
                   entityVars, timer, tracker, manager>>

\* the vendor's window ends: its count starts again from zero; nothing in
\* the integration takes part
QuotaResets ==
    /\ ratelimit.used > 0
    /\ ratelimit' = [ratelimit EXCEPT !.used = 0]
    /\ UNCHANGED <<fileVars, tokenVars, syncVars, pollVars, refreshVars,
                   _handler, syncPass, errorHandler, componentVars,
                   entityVars, timer, tracker, manager>>

\* the "used" value async_sync_tado's Test Mode check reads
UsedInFile ==
    IF ratelimit.file = EmptyDict THEN None ELSE ratelimit.file.used

\* a command of an entity of a set-up entry: its trigger_refresh reads
\* ratelimit.json as it is
EntityCommand(entity_id) ==
    /\ \E g \in Setups : setupPc[g] = "running"
    /\ CommandRefresh(entity_id, ratelimit.file)

\* ---------------------------------------------------------------------
\* The API call tracker: api_call_history.json and the worker pool
\* ---------------------------------------------------------------------

\* the calls that are recorded
RecordCalls ==
    1 .. MaxRecordCalls

\* json.dump of a history with n records of one day: the records in the
\* order of their append, then the closing of the document (0)
HistoryText(n) ==
    [k \in 1 .. (n + 1) |-> IF k <= n THEN k ELSE 0]

\* async_record_call up to its await: the record is appended under the lock,
\* then dict(self._call_history) (a copy of the date keys that shares the
\* day's list) is submitted to _io_executor, which starts a worker thread
\* when none is idle and fewer than max_workers exist
async_record_call(c) ==
    /\ tracker.pc[c] = "idle"
    /\ \E g \in Setups :
          /\ setupPc[g] \in {"awaiting", "running"}
          /\ LET busy == Cardinality({b \in RecordCalls :
                            tracker.pc[b] \in {"queued", "open", "dumped"}})
                 n    == Cardinality(tracker.threads)
             IN  tracker' =
                   [tracker EXCEPT
                      !._call_history = @ + 1,
                      !.pc[c] = "queued",
                      !.queue = Append(@, c),
                      !.threads =
                         IF busy < n \/ n >= 2 THEN @
                         ELSE @ \cup {[pool |-> tracker._io_executor,
                                       since |-> g, id |-> n + 1]}]
    /\ UNCHANGED <<fileVars, tokenVars, syncVars, pollVars, refreshVars,
                   _handler, syncPass, errorHandler, componentVars,
                   entityVars, timer, manager, ratelimit>>

\* _save_history_sync in a worker thread, in the three steps other threads
\* can come between: open(history_file, 'w') truncates the file; json.dump
\* encodes the day's list as it is now into the file object's buffer; leaving
\* the with block writes the buffer from the start of the file, over what is
\* there, and the awaiting coroutine resumes
_save_history_sync(c) ==
    /\ \/ /\ tracker.pc[c] = "queued"
          /\ tracker.queue # <<>>
          /\ Head(tracker.queue) = c
          /\ Cardinality({b \in RecordCalls :
                            tracker.pc[b] \in {"open", "dumped"}})
                < Cardinality(tracker.threads)
          /\ tracker' = [tracker EXCEPT !.pc[c] = "open",
                                        !.queue = Tail(@),
                                        !.history_file = <<>>]
       \/ /\ tracker.pc[c] = "open"
          /\ tracker' = [tracker EXCEPT
                           !.pc[c] = "dumped",
                           !.buffer[c] = HistoryText(tracker._call_history)]
       \/ /\ tracker.pc[c] = "dumped"
          /\ LET buf  == tracker.buffer[c]
                 file == tracker.history_file
                 len  == IF Len(file) > Len(buf) THEN Len(file) ELSE Len(buf)
             IN  tracker' = [tracker EXCEPT
                               !.pc[c] = "done",
                               !.buffer[c] = <<>>,
                               !.history_file =
                                  [k \in 1 .. len |->
                                     IF k <= Len(buf) THEN buf[k]
                                     ELSE file[k]]]
    /\ UNCHANGED <<fileVars, tokenVars, syncVars, pollVars, refreshVars,
                   _handler, syncPass, errorHandler, componentVars,
                   entityVars, timer, manager, ratelimit>>

\* ================== ConfigurationManager.async_update_config
\* async_update_config after its call of validate_config_updates: a failed
\* validation returns (False, error); otherwise the updates are merged into
\* the entry's options and self._options (the same dict, hostOptions) and
\* the sync to config.json is awaited
async_update_config ==
    /\ validation.pc = "done"
    /\ manager.pc = "idle"
    /\ IF ~validation.valid
       THEN /\ manager' = [pc |-> "returned", success |-> FALSE,
                           options_before |-> hostOptions]
            /\ UNCHANGED hostOptions
       ELSE /\ hostOptions' =
                  Update(hostOptions,
                         [k \in DOMAIN validation.updates |->
                            IF validation.updates[k].type = "none" THEN None
                            ELSE validation.updates[k].value])
            /\ manager' = [pc |-> "syncing", success |-> FALSE,
                           options_before |-> hostOptions]
    /\ UNCHANGED <<fileVars, tokenVars, configLock, syncPc, syncSaw,
                   readData, syncData, flowPc, flowData, pollVars,
                   refreshVars, _handler, syncPass, errorHandler,
                   componentVars, entityVars, timer, tracker, ratelimit>>

\* the awaited async_sync_all_to_config_json ends: config.json was replaced
\* by the merged dict and (True, None) is returned, or the write raised, the
\* exception is caught and (False, error_msg) is returned
async_update_config_returns(written) ==
    /\ manager.pc = "syncing"
    /\ configFile' = IF written
                     THEN [kind |-> "ok",
                           data |-> MergedConfig(configFile.data)]
                     ELSE configFile
    /\ manager' = [manager EXCEPT !.pc = "returned", !.success = written]
    /\ UNCHANGED <<flowStale, tokenVars, syncVars, pollVars, refreshVars,
                   _handler, syncPass, errorHandler, componentVars,
                   entityVars, timer, tracker, ratelimit>>

\* the other components before their first operation
InitComponents ==
    /\ authManager = [pc |-> "idle", _access_token |-> None,
                      _token_expiry |-> "unset",
                      _refresh_in_progress |-> FALSE,
                      _consecutive_failures |-> 0, config |-> EmptyDict,
                      notified |-> FALSE, outcome |-> "", result |-> None]
    /\ entries = [by_id |-> [r \in 1..NEntries |->
                                [present |-> FALSE, version |-> 0,
                                 initial_version |-> 0, migrated |-> "",
                                 stage |-> "none",
                                 log |-> <<>>, keeper |-> 0,
                                 remove |-> <<>>]],
                  data_dir |-> "unknown", cleanup |-> {}]
    /\ authorize = [step |-> "user", errors |-> "", reason |-> "",
                    _check_count |-> 0, response |-> "", result |-> "",
                    slept |-> 0]
    /\ button = [pc |-> "idle",
                 entity_id |-> <<"button", "tado_ce_resume_all_schedules">>,
                 zones |-> 0, log |-> <<>>, success_count |-> 0,
                 fail_count |-> 0]
    /\ waterHeater = [pc |-> "idle",
                      entity_id |-> <<"water_heater", "hot_water">>,
                      _attr_current_operation |-> "None",
                      _attr_available |-> FALSE, operation_mode |-> "",
                      previous_mode |-> "", success |-> FALSE,
                      attempt |-> 0, log |-> <<>>]
    /\ climate = [pc |-> "idle",
                  zone_data |-> [present |-> FALSE, power |-> "None",
                                 overlayType |-> "None", heatingPower |-> 0,
                                 celsius |-> None],
                  _heating_power |-> None, _overlay_type |-> "None",
                  _attr_hvac_action |-> "None",
                  _attr_target_temperature |-> None,
                  _attr_hvac_mode |-> "None", _attr_available |-> FALSE,
                  _attr_preset_mode |-> "home"]
    /\ validation = [pc |-> "idle", updates |-> EmptyDict, valid |-> TRUE,
                     error |-> <<>>]
    /\ timer = [pc |-> "idle", service |-> "", time_period |-> <<>>,
                duration_minutes |-> None, raised |-> "", given |-> None]
    /\ tracker = [_call_history |-> 0,
                  pc |-> [c \in RecordCalls |-> "idle"],
                  queue |-> <<>>,
                  buffer |-> [c \in RecordCalls |-> <<>>],
                  history_file |-> <<>>,
                  _io_executor |-> 1,
                  threads |-> {}]
    /\ manager = [pc |-> "idle", success |-> FALSE,
                  options_before |-> EmptyDict]
    /\ ratelimit = [used |-> 0, file |-> EmptyDict]

\* after the config flow has stored the credentials, default options, the
\* refresh handler created
Init ==
    /\ configFile = [kind |-> "ok",
                     data |-> [k \in {"home_id", "refresh_token"} |-> 1]]
    /\ hostOptions = EmptyDict
    /\ _handler = 1
    /\ syncPass = IdlePass
    /\ errorHandler = _error_handler
    /\ InitSync
    /\ InitToken
    /\ InitPoll
    /\ InitRefresh
    /\ InitComponents

InitConfig ==
    /\ configFile \in InitialConfigFiles
    /\ hostOptions \in OptionChoices
    /\ _handler = None
    /\ syncPass = IdlePass
    /\ errorHandler = _error_handler
    /\ InitSync
    /\ InitToken
    /\ InitPoll
    /\ InitRefresh
    /\ InitComponents

NextConfig ==
    \/ \E s \in Syncers : SyncStart(s)
    \/ \E s \in Syncers : SyncRead(s)
    \/ \E s \in Syncers : SyncMove(s)
    \/ \E s \in Syncers : SyncVerify(s)
    \/ \E h \in 1..NHomes : FlowOpen(h)
    \/ FlowWrite
    \/ get_access_token(1)
    \/ RefreshLoad(1)
    \/ \E o \in RefreshOutcomes : RefreshResponse(1, o)
    \/ RefreshSave(1)
    \/ ApiLoadHome(1)
    \/ \E st \in HttpStatuses : ApiResponse(1, st)
    \/ ApiReturn(1)
    \/ TokenExpires

\* config.json as the config flow wrote it; no options stored, or options with
\* Test Mode on
InitPolling ==
    /\ configFile = [kind |-> "ok",
                     data |-> [k \in CredentialKeys |-> 1]]
    /\ hostOptions \in {o \in OptionChoices :
                          o = EmptyDict \/ Get(o, "test_mode_enabled") = 1}
    /\ _handler = None
    /\ syncPass = IdlePass
    /\ errorHandler = _error_handler
    /\ InitSync
    /\ InitToken
    /\ InitPoll
    /\ InitRefresh
    /\ InitComponents

NextPoll ==
    \/ \E g \in Setups : SetupStart(g)
    \/ \E g \in Setups : SetupConfigSync(g)
    \/ \E g \in Setups, used \in {None, 99, 100} : SetupInitialSync(g, used)
    \/ \E t \in Timers, i \in SyncRuns, used \in {None, 99, 100},
          hours_since_full \in {5, 6} :
          TimerFires(t, i, used, hours_since_full)
    \/ \E g \in Setups, i \in SyncRuns, success \in BOOLEAN :
          SyncReturns(g, i, success)
    \/ \E g \in Setups, i \in SyncRuns, daytime \in BOOLEAN,
          limit \in RatelimitLimits :
          async_schedule_next_sync(g, i, daytime, limit)
    \/ UnloadStart
    \/ \E unload_ok \in BOOLEAN : UnloadFinish(unload_ok)

NextRefresh ==
    \/ \E e \in EntityIds, rl \in RatelimitSnapshots :
          trigger_refresh(e, rl) /\ UNCHANGED entityVars
    \/ \E i \in RefreshTaskIds : DebounceElapsed(i)
    \/ \E i \in RefreshTaskIds : FetchSend(i)
    \/ \E i \in RefreshTaskIds, o \in FetchOutcomes : FetchReturns(i, o)
    \/ Tick

\* the token cache of one client and its callers
SpecToken ==
    Init /\ [][NextToken]_vars

\* the writers of config.json: option syncs, the config flow and the token
\* rotation of one api_call at a time
SpecConfig ==
    InitConfig /\ [][NextConfig]_vars

\* setups, unloads and the polling timers they leave
SpecPoll ==
    InitPolling /\ [][NextPoll]_vars

\* the handler's snapshot reads in the handler's lifetime: no file, or a
\* fresh quota
LifetimeSnapshots ==
    {EmptyDict}

\* the lifetime of the handler: commands of several entities, the deferred
\* refresh they leave, and the teardown at unload
NextHandler ==
    \/ \E e \in CommandEntityIds, rl \in LifetimeSnapshots :
          CommandRefresh(e, rl)
    \/ \E i \in RefreshTaskIds : DebounceElapsed(i)
    \/ \E i \in RefreshTaskIds : FetchSend(i)
    \/ \E i \in RefreshTaskIds, o \in FetchOutcomes : FetchReturns(i, o)
    \/ Tick
    \/ cleanup_handler

\* the immediate refresh handler over discrete seconds
SpecRefresh ==
    Init /\ [][NextRefresh]_vars

SpecHandler ==
    Init /\ [][NextHandler]_vars

NextSync ==
    \/ \E quick, weather_enabled, mobile_devices_enabled,
          mobile_devices_frequent_sync, ac_zones \in BOOLEAN :
          async_sync(quick, weather_enabled, mobile_devices_enabled,
                     mobile_devices_frequent_sync, ac_zones)
    \/ \E o \in {"no_token", "ok", "empty", "write_failed", "http_401",
                 "http_429", "http_500", "network_error"} : PassFetch(o)

\* sync passes of one client, one after the other
SpecSync ==
    Init /\ [][NextSync]_vars

NextRetry ==
    \/ handle_api_call
    \/ \E answer \in {200, 401, 403, 404, 429, 500, None} : api_func(answer)

\* calls of the legacy client through the error handler
SpecRetry ==
    Init /\ [][NextRetry]_vars

\* the AuthManager of the entity platforms: token requests one after the
\* other, each with the vendor's answer to its refresh
SpecAuth ==
    Init /\ [][\/ \E expired \in BOOLEAN :
                     AuthManager_get_access_token(expired)
               \/ \E o \in RefreshOutcomes \cup {"ok_rotated_save_failed"} :
                     AuthManager_refresh_response(o)
               \/ AuthManager_invalidate_token]_vars

\* the config entries of the domain: stored, migrated and set up, each
\* entry's setup interleaving with the others at its awaits
SpecEntries ==
    Init /\ [][\/ \E r \in 1..NEntries, version \in 1..5 :
                     StoredEntry(r, version)
               \/ \E r \in 1..NEntries,
                     fs \in {"settled", "moved", "mkdir_failed"} :
                     async_migrate_entry(r, fs)
               \/ \E r \in 1..NEntries : async_setup_entry(r)
               \/ \E r \in 1..NEntries, removed \in BOOLEAN :
                     async_remove(r, removed)]_vars

\* one config flow after the other: the user step and the submits of the
\* authorize form, each with the vendor's answer
SpecAuthorize ==
    Init /\ [][\/ \E device_code_ok \in BOOLEAN :
                     async_step_user(device_code_ok)
               \/ \E response \in
                       {"200_tokens", "200_tokens_homes_failed",
                        "200_no_tokens", "400_authorization_pending",
                        "400_slow_down", "400_expired_token",
                        "400_access_denied", "500", "exception"} :
                     async_step_authorize(response)]_vars

\* presses of the Resume All Schedules button, one after the other
SpecButton ==
    Init /\ [][\/ \E zones \in 0..MaxZones : async_press(zones)
               \/ \E outcome \in {"True", "False", "raised"},
                     rl \in RatelimitSnapshots :
                     delete_zone_overlay(outcome, rl)]_vars

\* one hot water entity: its polls of zones.json and its mode commands, one
\* command at a time
SpecWater ==
    Init /\ [][\/ \E present, overlay \in BOOLEAN,
                     overlayType \in {"None", "TIMER", "MANUAL", "TADO_MODE"},
                     power \in {"ON", "OFF"} :
                     TadoWaterHeater_update(
                         [present |-> present, overlay |-> overlay,
                          overlayType |-> overlayType, power |-> power])
               \/ \E operation_mode \in {"auto", "heat", "off"} :
                     async_set_operation_mode(operation_mode)
               \/ \E success \in BOOLEAN, rl \in LifetimeSnapshots :
                     executor_job_returns(success, rl)
               \/ asyncio_sleep]_vars

\* validate_config_updates applied once to a batch of one or two options,
\* each value an integer in or out of range, a boolean, a string or None
SpecValidate ==
    Init /\ [][\E updates \in
                  UNION {[ks -> {[type |-> "int", value |-> n] :
                                    n \in {-1, 0, 5, 24, 2000}}
                                \cup {[type |-> "bool", value |-> b] :
                                         b \in {0, 1}}
                                \cup {[type |-> "str", value |-> 0],
                                      [type |-> "none", value |-> 0]}] :
                         ks \in {s \in SUBSET (OptionKeys \cup
                                     {"home_state_sync_enabled",
                                      "refresh_debounce_seconds"}) :
                                   Cardinality(s) <= 2}} :
                  validate_config_updates(updates)]_vars

\* one heating zone entity polled again and again, zones.json holding any
\* of the zone states
SpecClimate ==
    Init /\ [][\E zone_data \in
                  {z \in [present : BOOLEAN, power : {"ON", "OFF", "None"},
                          overlayType : {"None", "MANUAL", "TIMER",
                                         "TADO_MODE"},
                          heatingPower : {0, 40},
                          celsius : {None, 18, 21}] :
                      z.present \/ z = [present |-> FALSE, power |-> "None",
                                        overlayType |-> "None",
                                        heatingPower |-> 0,
                                        celsius |-> None]},
                  mobile_devices \in {"at_home", "away", "unreadable"} :
                  TadoClimate_update(zone_data, mobile_devices)]_vars

\* ------------------------------------------------------------ claims C1, C2
\* one call of a timer action with any of the time periods, with no
\* temperature, one below the hot water range, or one inside it
SpecTimer ==
    Init /\ [][\/ \E time_period \in TimePeriods,
                     temperature \in {None, 20, 50} :
                     handle_set_climate_timer(time_period, temperature)
               \/ \E time_period \in TimePeriods,
                     temperature \in {None, 20, 50} :
                     handle_set_water_heater_timer(time_period,
                                                   temperature)]_vars

\* one process: a coroutine calling the async client on the event loop and
\* the entity platforms' AuthManager in a worker thread, both reading the
\* refresh token of the same config.json
SpecProcess ==
    Init /\ [][\/ \E c \in {1} : get_access_token(c)
               \/ \E c \in {1} : RefreshLoad(c)
               \/ \E c \in {1}, o \in RefreshOutcomes : RefreshResponse(c, o)
               \/ \E c \in {1} : RefreshSave(c)
               \/ \E c \in {1} : ApiLoadHome(c)
               \/ \E c \in {1}, s \in HttpStatuses : ApiResponse(c, s)
               \/ \E c \in {1} : ApiReturn(c)
               \/ TokenExpires
               \/ \E expired \in BOOLEAN :
                     AuthManager_get_access_token(expired)
               \/ \E o \in RefreshOutcomes :
                     AuthManager_refresh_response(o)
               \/ AuthManager_invalidate_token]_vars

\* an entry that is set up, its polling timer installed, the handler
\* created, and a scheduled sync in flight
InitSyncing ==
    /\ hostOptions = EmptyDict
    /\ configFile = [kind |-> "ok",
                     data |-> MergedConfig([k \in CredentialKeys |-> 1])]
    /\ _handler = 1
    /\ syncPass = IdlePass
    /\ errorHandler = _error_handler
    /\ InitSync
    /\ InitToken
    /\ hassDomain = TRUE
    /\ polling_cancel = 1
    /\ activeTimers = {1}
    /\ timerOwner = [t \in Timers |-> IF t = 1 THEN 1 ELSE 0]
    /\ setupPc = [g \in Setups |-> IF g = 1 THEN "running" ELSE "none"]
    /\ unloadPc = "idle"
    /\ cancel_interval = [g \in Setups |-> IF g = 1 THEN 1 ELSE None]
    /\ current_interval = [g \in Setups |-> IF g = 1 THEN 30 ELSE 0]
    /\ last_full_sync = [g \in Setups |-> None]
    /\ taskPc = [g \in Setups |-> [i \in SyncRuns |->
                    IF g = 1 /\ i = 1 THEN "syncing" ELSE "idle"]]
    /\ taskFull = [g \in Setups |-> [i \in SyncRuns |-> g = 1 /\ i = 1]]
    /\ InitRefresh
    /\ InitComponents

\* the commands of one entity and their deferred refreshes while a scheduled
\* sync of the entry is in flight, all using the ratelimit.json the client
\* writes at the end of a sync and of a fetch
SpecQuota ==
    InitSyncing
    /\ [][\/ \E success \in BOOLEAN : SyncReturns(1, 1, success)
          \/ \E used \in {0, 4600} : save_ratelimit(used, "ok")
          \/ EntityCommand(<<"climate", "living_room">>)
          \/ \E i \in RefreshTaskIds : DebounceElapsed(i)
          \/ \E i \in RefreshTaskIds : FetchSend(i)
          \/ \E i \in RefreshTaskIds : FetchReturns(i, "ok")
          \/ Tick]_vars

\* one set-up entry and its scheduled syncs with no command of any entity;
\* the vendor's window ends from time to time.  The event loop runs every
\* timer that is due and every coroutine that can resume
SpecTestMode ==
    /\ InitPolling
    /\ [][\/ SetupStart(1)
          \/ SetupConfigSync(1)
          \/ SetupInitialSync(1, UsedInFile)
          \/ \E t \in Timers, hours_since_full \in {5, 6} :
                TimerFires(t, 1, UsedInFile, hours_since_full)
          \/ \E success \in BOOLEAN : SyncReturns(1, 1, success)
          \/ \E daytime \in BOOLEAN :
                async_schedule_next_sync(1, 1, daytime, 5000)
          \/ \E used \in UsedCounts, status \in {"ok", "error"} :
                save_ratelimit(used, status)
          \/ QuotaResets]_vars
    /\ WF_vars(SetupStart(1))
    /\ WF_vars(SetupConfigSync(1))
    /\ WF_vars(SetupInitialSync(1, UsedInFile))
    /\ WF_vars(\E t \in Timers, hours_since_full \in {5, 6} :
                  TimerFires(t, 1, UsedInFile, hours_since_full))
    /\ WF_vars(\E success \in BOOLEAN : SyncReturns(1, 1, success))
    /\ WF_vars(\E daytime \in BOOLEAN :
                  async_schedule_next_sync(1, 1, daytime, 5000))

\* set-up, unload and reload of the entry while the client records its calls
SpecTracker ==
    InitPolling
    /\ [][\/ \E g \in Setups : SetupStart(g)
          \/ \E g \in Setups : SetupConfigSync(g)
          \/ \E g \in Setups : SetupInitialSync(g, None)
          \/ \E g \in Setups : SyncReturns(g, 1, TRUE)
          \/ \E g \in Setups : async_schedule_next_sync(g, 1, TRUE, 5000)
          \/ UnloadStart
          \/ UnloadFinish(TRUE)
          \/ \E c \in RecordCalls : async_record_call(c)
          \/ \E c \in RecordCalls : _save_history_sync(c)]_vars

\* async_update_config called once with one option, its value an integer in
\* or out of range, a boolean, a string or None; the write of config.json
\* succeeds or raises
SpecManager ==
    Init /\ [][\/ \E updates \in
                    UNION {[{k} -> {[type |-> "int", value |-> n] :
                                       n \in {-1, 0, 5, 24, 2000}}
                                   \cup {[type |-> "bool", value |-> b] :
                                            b \in {0, 1}}
                                   \cup {[type |-> "str", value |-> 0],
                                         [type |-> "none", value |-> 0]}] :
                           k \in OptionKeys} :
                    validate_config_updates(updates)
              \/ async_update_config
              \/ \E written \in BOOLEAN :
                    async_update_config_returns(written)]_vars

InRefresh ==
    {"load_cfg", "post", "save_rotated", "save_cleared"}

\* C1: at most one token-refresh request is in flight at any moment, and the
\* validity check and the refresh run under the refresh lock: whoever is
\* inside _refresh_token holds the lock.
C1_SingleRefreshInFlight ==
    /\ Cardinality({c \in Callers : pc[c] = "post"}) <= 1
    /\ \A c \in Callers : pc[c] \in InRefresh => refreshLock = c

\* C1 witness: a refresh request is in flight while another caller, which
\* called with no valid token cached, waits for the lock.
C1_Witness ==
    \E c, d \in Callers :
        pc[c] = "post" /\ pc[d] = "wait" /\ ~TokenValid

\* C2 as stated: a caller that was blocked during a refresh that succeeded
\* returns the token that refresh cached and sends no refresh request.
C2_BlockedCallerReusesToken ==
    \A c \in Callers :
        (observed[c] > 0 /\ pc[c] # "wait")
            => /\ pc[c] \notin InRefresh
               /\ ~refreshed[c]
               /\ tok[c] = observed[c]

\* C2 amended: the same, unless a 401 response invalidated the cached token
\* between the end of that refresh and the blocked caller taking the lock.
C2_BlockedCallerReusesTokenUnless401 ==
    \A c \in Callers :
        (observed[c] > 0 /\ ~invalidated[c] /\ pc[c] # "wait")
            => /\ pc[c] \notin InRefresh
               /\ ~refreshed[c]
               /\ tok[c] = observed[c]

\* C2 witness: a caller that was blocked during a successful refresh has
\* taken the lock and gone on with that refresh's token.
C2_Witness ==
    \E c \in Callers :
        /\ observed[c] > 0 /\ ~invalidated[c]
        /\ pc[c] \in {"load_home", "get"}
        /\ tok[c] = observed[c]

\* C3: whatever the option values, when the config.json an option sync loaded
\* holds a refresh_token or a home_id, the file the sync moves into place
\* holds the same refresh_token and home_id.
C3_SyncPreservesCredentials ==
    [][\A s \in Syncers : SyncMove(s) =>
          \A k \in CredentialKeys :
             Get(readData[s], k) # None =>
                /\ configFile'.kind = "ok"
                /\ Get(configFile'.data, k) = Get(readData[s], k)]_vars

C3_Witness ==
    \E s \in Syncers :
       /\ syncPc[s] = "verify"
       /\ hostOptions # EmptyDict
       /\ Get(readData[s], "refresh_token") > 0
       /\ Get(readData[s], "home_id") > 0
       /\ configFile = [kind |-> "ok", data |-> syncData[s]]
       /\ \A k \in OptionKeys : Get(configFile.data, k) = config_data[k]

\* C4 as stated: when the refresh_token in config.json has been changed by a
\* rotation or a re-authentication since an option sync loaded the file, the
\* sync's move does not put the older refresh_token it loaded back.
C4_SyncNeverRevertsCredential ==
    [][\A s \in Syncers :
          ( /\ SyncMove(s)
            /\ syncSaw[s] = "ok"
            /\ Get(readData[s], "refresh_token") # None
            /\ configFile.kind = "ok"
            /\ Get(configFile.data, "refresh_token") # None
            /\ Get(configFile.data, "refresh_token")
                  # Get(readData[s], "refresh_token") )
          => Get(configFile'.data, "refresh_token")
                = Get(configFile.data, "refresh_token")]_vars

\* C5 as stated: no reader of config.json finds a partially written file.
C5_ReaderNeverSeesPartialFile ==
    \A s \in Syncers : syncSaw[s] # "torn"

\* C6 as stated: at every moment at most one polling interval timer is
\* active, whatever the interleaving of syncs, interval changes, unloads and
\* repeated setups.
C6_AtMostOnePollingTimer ==
    Cardinality(activeTimers) <= 1

\* C7: a request accepted while the earlier deferred refresh is still waiting
\* cancels and replaces it, so at most one deferred refresh waits, it is the
\* one _debounce_task refers to, and the requests of one burst (each accepted
\* while the task of the previous one still sleeps) send one zoneStates fetch
\* at most.
C7_BurstGivesSingleFetch ==
    /\ Cardinality({i \in RefreshTaskIds :
                       refreshTasks[i].state = "sleeping"}) <= 1
    /\ \A i \in RefreshTaskIds :
          refreshTasks[i].state = "sleeping" => _debounce_task = i
    /\ burstFetches <= 1

C7_Witness ==
    /\ burstSize >= 2
    /\ burstFetches = 1
    /\ \E i \in RefreshTaskIds :
          refreshTasks[i].state = "sent" /\ refreshTasks[i].inBurst

\* C8 as stated: a zoneStates fetch is sent no sooner after the previous one
\* than the backoff interval then in force (checked for gaps the saturating
\* counter still measures, those below MaxGap seconds).
C8_FetchesSeparatedByBackoff ==
    [][\A i \in RefreshTaskIds :
          (FetchSend(i) /\ sinceFetch # None /\ sinceFetch < MaxGap)
             => sinceFetch >= _get_backoff_interval]_vars

\* C9: each further consecutive failure doubles the backoff interval from the
\* base of 2 s up to the ceiling of 300 s, the interval never exceeds the
\* ceiling, and a successful refresh sets the failure counter to zero and the
\* interval back to the base.
C9_BackoffDoublesToCeilingAndResets ==
    /\ [](/\ _get_backoff_interval <= 300
          /\ _get_backoff_interval >= 2
          /\ (_consecutive_failures = 0 => _get_backoff_interval = 2))
    /\ [][/\ \A i \in RefreshTaskIds :
                \A o \in FetchOutcomes \ {"ok"} :
                   FetchReturns(i, o) =>
                      /\ _consecutive_failures' = _consecutive_failures + 1
                      /\ _get_backoff_interval' =
                            Min(2 * _get_backoff_interval, 300)
          /\ \A i \in RefreshTaskIds :
                FetchReturns(i, "ok") =>
                   /\ _consecutive_failures' = 0
                   /\ _get_backoff_interval' = 2]_vars

C9_Witness ==
    /\ _consecutive_failures = 8
    /\ _get_backoff_interval = 300

\* C10: a trigger_refresh whose snapshot has status rate_limited, remaining 0,
\* remaining below 50 or usage of 90% or more schedules nothing; with no
\* snapshot the refresh of a refreshing entity is scheduled.
C10_QuotaGate ==
    [][\A rl \in RatelimitSnapshots :
          /\ ( /\ DOMAIN rl # {}
               /\ \/ rl.status = "rate_limited"
                  \/ rl.remaining = 0
                  \/ rl.remaining < 50
                  \/ 100 * (rl.limit - rl.remaining) >= 90 * rl.limit )
             => \/ UNCHANGED <<refreshTasks, _debounce_task, _pending_refresh>>
                \/ \A e \in EntityIds : ~trigger_refresh(e, rl)
          /\ DOMAIN rl = {}
             => \/ /\ _pending_refresh'
                   /\ _debounce_task' \in RefreshTaskIds
                   /\ refreshTasks'[_debounce_task'].state = "sleeping"
                \/ \A e \in EntityIds :
                      should_refresh(e) => ~trigger_refresh(e, rl)]_vars

C10_Witness ==
    /\ quotaReason = "quota_critical"
    /\ _debounce_task = None
    /\ \A i \in RefreshTaskIds : refreshTasks[i].state = "free"

\* C11 as stated: a request of an entity less than 2 seconds after that
\* entity's previous request is refused: it leaves the pending deferred
\* refresh and its delay as they are.
C11_RepeatedEntityRequestRefused ==
    [][\A e \in CommandEntityIds :
          \/ UNCHANGED <<refreshTasks, _debounce_task>>
          \/ _last_refresh_per_entity[e] = None
          \/ _last_refresh_per_entity[e] >= _min_per_entity_interval
          \/ \A rl \in LifetimeSnapshots : ~CommandRefresh(e, rl)]_vars

\* C12: a refresh that fails, with no token or after a GET that brought no
\* data, adds one to the failure counter; the exception ends inside the task,
\* which finishes, and nothing else of the handler or of its callers changes.
C12_FailureCountedAndContained ==
    [][\A i \in RefreshTaskIds :
          \A o \in FetchOutcomes \ {"ok"} :
             \/ /\ _consecutive_failures' = _consecutive_failures + 1
                /\ refreshTasks'[i] = FreeTask
                /\ _debounce_task' \in {_debounce_task, 0}
                /\ UNCHANGED <<_pending_refresh, _last_refresh_per_entity,
                               _global_last_refresh, quotaReason, _handler>>
             \/ ~FetchReturns(i, o)]_vars

\* C12 witness: a refresh failed for want of a token before any GET was
\* sent, and its task has ended
C12_Witness ==
    /\ _consecutive_failures = 1
    /\ sinceFetch = None
    /\ _debounce_task = 0
    /\ \A i \in RefreshTaskIds : refreshTasks[i].state = "free"

\* C13 as stated: once cleanup_handler has run, no deferred refresh scheduled
\* before it is still waiting or fetching.
C13_NoTaskSurvivesTeardown ==
    _handler = None =>
        \A i \in RefreshTaskIds : refreshTasks[i].state = "free"

\* C14 as stated: a scheduled sync that is not the first one after startup
\* (Test Mode off: the initial sync of the setup has run) and that starts
\* less than 6 hours after the last full sync is a quick sync.
C14_OtherScheduledSyncsAreQuick ==
    [][\A t \in Timers, i \in SyncRuns :
          \/ Opt("test_mode_enabled", 0) = 1
          \/ ~TimerFires(t, i, None, 5)
          \/ ~taskFull'[timerOwner[t]][i]]_vars

\* C14 amended: the first sync of a setup is a full sync; a sync is a full
\* sync exactly when no full sync of its setup has succeeded yet or at least
\* 6 hours have passed since the last one that succeeded, else a quick sync;
\* and only a full sync that succeeded is recorded as the last full sync.
C14_FullUntilSucceededThenEverySixHours ==
    [][/\ \A g \in Setups :
             (setupPc[g] = "initial" /\ taskPc'[g][1] = "syncing")
                => taskFull'[g][1]
       /\ \A g \in Setups, i \in SyncRuns :
             (taskPc[g][i] = "idle" /\ taskPc'[g][i] = "syncing")
                => taskFull'[g][i] =
                      \/ last_full_sync[g] = None
                      \/ \E t \in Timers, used \in {None, 99, 100} :
                            TimerFires(t, i, used, 6)
       /\ \A g \in Setups :
             last_full_sync'[g] # last_full_sync[g]
                => \E i \in SyncRuns :
                      taskFull[g][i] /\ SyncReturns(g, i, TRUE)]_vars

\* C14 witness: a timer-fired sync runs as a quick sync after a full sync of
\* its setup has succeeded
C14_Witness ==
    \E g \in Setups, i \in SyncRuns :
       /\ taskPc[g][i] = "syncing"
       /\ ~taskFull[g][i]
       /\ last_full_sync[g] # None
       /\ setupPc[g] = "running"

C16_ZoneStatesFirstOrFail ==
    LET p == syncPass
    IN  /\ p.issued # <<>> => p.issued[1] = "zoneStates"
        /\ p.pc \notin {"idle", "zoneStates", "done"} =>
               "zoneStates" \in p.fetched
        /\ Len(p.issued) >= 2 => "zoneStates" \in p.fetched
        /\ (p.issued # <<>> /\ "zoneStates" \notin p.fetched) =>
               /\ p.pc = "done"
               /\ p.result = "False"
               /\ p.saved = "error"
               /\ p.issued = <<"zoneStates">>

\* a pass that failed on its zoneStates fetch (HTTP 500)
C16_Witness ==
    /\ syncPass.pc = "done"
    /\ syncPass.issued = <<"zoneStates">>
    /\ syncPass.last.status = 500
    /\ syncPass.result = "False"

C18_EveryCallClassifiedAndRecorded ==
    syncPass.last.sent =>
        /\ syncPass.last.call_type \in 1..7
        /\ syncPass.last.records = 1

\* ---- claim C19
\* C19: a call of the legacy client that the vendor answered with 429, 401 or
\* 403 was attempted once, without a delay, and handle_api_call raised the
\* rate-limit error for 429 and the authentication error for 401 and 403.
C19_AuthAndRateLimitRaised ==
    LET h == errorHandler
    IN  \A i \in 1..Len(h.log) :
           h.log[i] \in {429, 401, 403} =>
              /\ i = Len(h.log)
              /\ h.pc = "done"
              /\ Len(h.slept) = i - 1
              /\ h.result = IF h.log[i] = 429 THEN "RateLimitError"
                            ELSE "AuthenticationError"

\* ---- claim C20
\* C20: a call of the legacy client that failed with another HTTP status or
\* without a response was attempted a second time after retry_delay seconds,
\* and handle_api_call returned the data of the first attempt that succeeded,
\* or None after two failed attempts.
C20_OtherErrorsRetriedOnce ==
    LET h == errorHandler
        other == {404, 500, None}
    IN  /\ Len(h.log) <= h.max_retries + 1
        /\ \A i \in 1..Len(h.log) :
              /\ (h.log[i] \in other /\ i <= h.max_retries) =>
                    /\ Len(h.slept) >= i
                    /\ h.slept[i] = retry_delay
                    /\ (h.pc = "calling" \/ Len(h.log) > i)
              /\ (h.log[i] \in other /\ i > h.max_retries) =>
                    (h.pc = "done" /\ h.result = "None")
              /\ h.log[i] = 200 => (h.pc = "done" /\ h.result = "result")

\* C24: async_unload_entry runs every teardown step even if an earlier one
\* fails, so whenever it finishes, the shared per-process state
\* (hass.data[DOMAIN]) has been cleared.  The code pops hass.data[DOMAIN] only
\* `if unload_ok`, and no step is wrapped in try/except: when the platforms
\* fail to unload the shared state stays.
C24_SharedStateClearedAfterUnload ==
    [][(unloadPc = "platforms" /\ unloadPc' = "idle") => ~hassDomain']_vars

\* C26: when the configured home id is still in the account's home list, the
\* reconfigure flow's write changes only the refresh token: the home id and
\* every other key already in config.json keep their values.  The code writes
\* a new dict of exactly two keys.
C26_ReconfigureKeepsOtherFields ==
    [][(/\ flowPc = "idle"
        /\ flowPc' = "open"
        /\ configFile.kind = "ok"
        /\ Get(configFile.data, "home_id") # None
        /\ flowData'["home_id"] = Get(configFile.data, "home_id"))
       => \A k \in (DOMAIN configFile.data) \ {"refresh_token"} :
              /\ k \in DOMAIN flowData'
              /\ flowData'[k] = configFile.data[k]]_vars

\* C21: a failed token refresh clears the stored refresh token in config.json
\* if and only if the vendor rejected it with invalid_grant.  Here the "if"
\* half for the AuthManager: once a refresh has failed with invalid_grant,
\* config.json holds no refresh token.  AuthManager looks for "invalid_grant"
\* in str(e), which for the HTTPError urlopen raises is
\* "HTTP Error 400: Bad Request", so it never clears the token.
C21_InvalidGrantClearsStoredToken ==
    [][(/\ authManager.pc = "posting"
        /\ authManager'.pc = "idle"
        /\ authManager'.outcome = "invalid_grant")
       => Get(_load_config', "refresh_token") = None]_vars

\* C22: when several config entries exist, every entry's setup picks the
\* same single keeper.  Each setup sorts the entries by the versions they
\* have when it runs, and an entry is migrated just before its own setup: a
\* later setup sees versions an earlier one did not.
C22_AllSetupsPickSameKeeper ==
    \A r, s \in DOMAIN entries.by_id :
        (entries.by_id[r].keeper # 0 /\ entries.by_id[s].keeper # 0)
            => entries.by_id[r].keeper = entries.by_id[s].keeper

C25_OtherResponseAborts ==
    [][(/\ authorize.step = "authorize"
        /\ authorize'._check_count = authorize._check_count + 1
        /\ authorize'.response \notin
              {"200_tokens", "400_authorization_pending", "400_slow_down",
               "400_expired_token"})
       => /\ authorize'.step = "abort"
          /\ authorize'.reason = "authorization_failed"]_vars

\* C27: pressing Resume All Schedules schedules one debounced immediate
\* refresh after the per-zone overlay deletions, whatever their outcomes:
\* once a press over some zones has ended, a refresh is pending and its task
\* sleeps through the debounce delay.  The button passes its own entity id,
\* whose domain is "button": should_refresh is False for it and
\* trigger_refresh returns without scheduling anything.
C27_PressSchedulesRefresh ==
    (button.pc = "done" /\ button.log # <<>>)
        => /\ _pending_refresh
           /\ _debounce_task > 0
           /\ refreshTasks[_debounce_task].state = "sleeping"

\* C28: a water heater set_operation_mode command that fails is retried
\* exactly once, after a 5-second sleep, and when the retry fails too the
\* entity displays again the mode it displayed before the command: a second
\* attempt is only ever made after one failed attempt and one sleep, there
\* is no third, a command that ended in failure made exactly two attempts
\* with the sleep between them, and it left the displayed mode equal to the
\* one saved at its start.
C28_RetryOnceAfterFiveSecondsThenRestore ==
    [][LET w == waterHeater'
       IN  /\ w.pc = "sleeping" => w.log = <<"call_failed">>
           /\ (w.pc = "calling" /\ w.log # <<>>)
                 => w.log = <<"call_failed", "sleep_5">>
           /\ (w.pc = "done" /\ w.success)
                 => w.log \in {<<"call_ok">>,
                               <<"call_failed", "sleep_5", "call_ok">>}
           /\ (w.pc = "done" /\ ~w.success)
                 => w.log = <<"call_failed", "sleep_5", "call_failed">>
           /\ (waterHeater.pc = "calling" /\ w.pc = "done" /\ ~w.success)
                 => w._attr_current_operation = waterHeater.previous_mode
      ]_vars

\* both attempts of an "off" command failed; the entity displayed "heat"
\* before the command and displays it again
C28_Witness ==
    /\ waterHeater.pc = "done"
    /\ ~waterHeater.success
    /\ waterHeater.operation_mode = "off"
    /\ waterHeater.previous_mode = "heat"
    /\ waterHeater._attr_current_operation = "heat"
    /\ waterHeater.log = <<"call_failed", "sleep_5", "call_failed">>

\* C29: validate_config_updates checks every key of the batch against that
\* option's rule of the options table, so a batch with an out-of-range or
\* wrongly typed value for any option is reported as failing, with a reason.
\* (An integer rule is taken to accept a boolean, as isinstance(v, int)
\* does.)  The code has no check for hot_water_timer_duration,
\* refresh_debounce_seconds, offset_enabled, mobile_devices_frequent_sync or
\* home_state_sync_enabled.
C29_EveryOptionOfTheBatchChecked ==
    LET u == validation.updates
        IntIn(v, lo, hi) ==
            v.type \in {"int", "bool"} /\ v.value >= lo /\ v.value <= hi
        Rule(k, v) ==
            CASE k \in {"day_start_hour", "night_start_hour"} ->
                    IntIn(v, MIN_HOUR, MAX_HOUR)
              [] k \in {"custom_day_interval", "custom_night_interval"} ->
                    \/ v.type = "none"
                    \/ IntIn(v, MIN_INTERVAL_MINUTES, MAX_INTERVAL_MINUTES)
              [] k = "api_history_retention_days" ->
                    IntIn(v, MIN_RETENTION_DAYS, MAX_RETENTION_DAYS)
              [] k = "hot_water_timer_duration" ->
                    IntIn(v, MIN_TIMER_DURATION, MAX_TIMER_DURATION)
              [] k = "refresh_debounce_seconds" -> IntIn(v, 1, 60)
              [] OTHER -> v.type = "bool"
    IN  (validation.pc = "done" /\ \E k \in DOMAIN u : ~Rule(k, u[k]))
            => ~validation.valid /\ validation.error # <<>>

\* C30: for a heating zone whose setting power is OFF, update() reports hvac
\* mode off only when a manual override is active, and auto without one.
\* The code reports off for every zone whose power is not ON, whatever the
\* overlay type.
C30_PowerOffIsOffOnlyUnderManualOverride ==
    (/\ climate.pc = "done"
     /\ climate.zone_data.present
     /\ climate.zone_data.power = "OFF")
        => climate._attr_hvac_mode =
              (IF climate.zone_data.overlayType = "MANUAL" THEN "off"
               ELSE "auto")

\* C31: the time-period parser of the timer actions raises a validation
\* error for every input that is absent, is not three integer fields with
\* 0 <= H <= 24 and 0 <= M, S <= 59, or whose whole minutes are outside
\* 5..1440; for every other input it yields exactly the whole minutes
\* (01:30:00 gives 90) and the entity is given nothing else.
C31_RejectsOrYieldsDerivedMinutes ==
    timer.pc = "done" =>
        LET tp == timer.time_period
            f == tp.fields
            wellFormed ==
                \/ tp.type = "timedelta"
                \/ /\ tp.type = "str"
                   /\ f # <<>>
                   /\ f[1] \in 0..24 /\ f[2] \in 0..59 /\ f[3] \in 0..59
            derived ==
                IF tp.type = "timedelta"
                THEN IF tp.seconds >= 0 THEN tp.seconds \div 60
                     ELSE 0 - ((0 - tp.seconds) \div 60)
                ELSE f[1] * 60 + f[2]
        IN  IF wellFormed /\ derived \in 5..1440
            THEN /\ timer.raised # "time_period"
                 /\ timer.duration_minutes = derived
                 /\ timer.raised = "" => timer.given = derived
            ELSE /\ timer.raised = "time_period"
                 /\ timer.given = None

C31_Witness ==
    /\ timer.pc = "done"
    /\ timer.time_period.text = <<"0", "1", ":", "3", "0", ":", "0", "0">>
    /\ timer.raised = ""
    /\ timer.given = 90

\* C32: within one process no two token refreshes overlap, the async
\* client's and the AuthManager's counted together: while one of them has a
\* refresh request in flight the other has none, so the same stored refresh
\* token is never submitted by two overlapping requests.
C32_NoOverlappingRefreshInProcess ==
    \A c \in Callers :
        ~(/\ pc[c] = "post"
          /\ authManager.pc = "posting"
          /\ sentRT[c] = Get(authManager.config, "refresh_token"))

\* C33: once async_unload_entry has completed for a setup, no polling timer
\* of that setup is active, then or later, even when one of its scheduled
\* syncs was still running at the moment of the unload.
C33_NoTimerOfUnloadedSetup ==
    \A t \in activeTimers : setupPc[timerOwner[t]] # "unloaded"

\* C34: no zoneStates fetch of an immediate refresh is sent while the
\* snapshot in ratelimit.json forbids it (status rate_limited, remaining 0,
\* remaining below 50, or 90% or more of the limit used), also when the
\* snapshot changed during the debounce delay after the request was accepted.
C34_NoFetchWhileSnapshotForbids ==
    [][\A i \in RefreshTaskIds :
          (refreshTasks[i].state = "fetching"
              /\ refreshTasks'[i].state = "sent")
             => LET rl == ratelimit.file
                IN  \/ rl = EmptyDict
                    \/ /\ rl.status # "rate_limited"
                       /\ rl.remaining # 0
                       /\ rl.remaining >= 50
                       /\ 100 * (rl.limit - rl.remaining) < 90 * rl.limit]_vars

\* C35: a request accepted by trigger_refresh is not lost: when its deferred
\* refresh wakes with the request still pending, the request stays pending
\* (postponed) or the zoneStates fetch of that task starts.
C35_PendingRequestNotDropped ==
    [][\A i \in RefreshTaskIds :
          (/\ refreshTasks[i].state = "sleeping"
           /\ refreshTasks[i].sleepLeft = 0
           /\ _pending_refresh
           /\ refreshTasks'[i].state # "sleeping")
             => \/ _pending_refresh'
                \/ refreshTasks'[i].state = "fetching"]_vars

\* C36: once every async_record_call that was started has completed,
\* api_call_history.json is the document of the whole history: every recorded
\* call is in it, no older snapshot replaced a newer one and no two writes
\* are mixed in the file.
C36_FileHoldsEveryRecordedCall ==
    (/\ \E c \in RecordCalls : tracker.pc[c] = "done"
     /\ \A c \in RecordCalls : tracker.pc[c] \in {"idle", "done"})
       => tracker.history_file = HistoryText(tracker._call_history)

\* C40: after the entry was unloaded and set up again, no worker thread that
\* the tracker's pool started before the unload is left: the unload shut the
\* pool down and replaced it.
C40_NoWorkerThreadSurvivesReload ==
    \A g \in Setups :
       setupPc[g] = "running"
          => \A w \in tracker.threads : setupPc[w.since] # "unloaded"

\* C37: when Test Mode is on, ratelimit.json says 100 or more calls are used,
\* no sync is in flight and the vendor's quota has reset, the used count in
\* ratelimit.json eventually drops below 100 through the scheduled syncs
\* alone (no command of any entity takes place).
C37_PausedSyncsResumeAfterReset ==
    (/\ TestModePaused(UsedInFile)
     /\ ratelimit.used = 0
     /\ \A g \in Setups, i \in SyncRuns : taskPc[g][i] # "syncing")
       ~> (UsedInFile < 100)

\* C38: when async_update_config has returned failure, from the validation
\* or from the sync to config.json, the options of the entry and of the
\* manager are the ones before the call.
C38_FailureLeavesOptions ==
    (manager.pc = "returned" /\ ~manager.success)
       => hostOptions = manager.options_before

====
